---- MODULE Spec2Model ----
(***************************************************************************)
(* DHelix token / DAO program (src/token/src/lib.rs).                      *)
(*                                                                         *)
(* The host keeps one byte buffer per account key; an invocation hands the *)
(* program a list of AccountInfo (key, is_signer, is_writable) whose data  *)
(* is the buffer stored under the key, so two entries with the same key    *)
(* alias the same bytes.  `data` is that store, `call` the last invocation *)
(* with its result, `before` the store as it was when the call began.      *)
(*                                                                         *)
(* Unsigned 64-bit amounts are narrowed to the range 0..U64_MAX; every     *)
(* encoding keeps its real width in bytes (u64: 8, u32: 4, Pubkey: 32).    *)
(***************************************************************************)
EXTENDS Integers, Sequences, FiniteSets, TLC

VARIABLES data, before, call

vars == <<data, before, call>>

(***************************************************************************)
(* Sizes                                                                   *)
(***************************************************************************)
TokenAccount_LEN == 41
PUBKEY_BYTES == 32
U64_BYTES == 8
U32_BYTES == 4
TRAILER_LEN == 8
MAX_PROPOSAL_DATA == 1024

\* largest value of the narrowed unsigned word that stands for u64
U64_MAX == 3
\* capacity in bytes of the region that holds the ProposalsState
ProposalsCapacity == 112

(***************************************************************************)
(* Account keys.  T1 and T2 hold a TokenAccount, P the ProposalsState.     *)
(* NoKey is a public key that no supplied account has.                     *)
(***************************************************************************)
T1 == "T1"
T2 == "T2"
P == "P"
NoKey == "NoKey"
\* the votes, balances and system state regions and the Clock sysvar account
V == "V"
B == "B"
S == "S"
CLOCK == "CLOCK"

TokenKeys == {T1, T2}
Keys == {T1, T2, P}

(***************************************************************************)
(* Bytes                                                                   *)
(***************************************************************************)
RECURSIVE to_le_bytes(_, _)
to_le_bytes(n, width) ==
    IF width = 0 THEN <<>>
    ELSE <<n % 256>> \o to_le_bytes(n \div 256, width - 1)

RECURSIVE from_le_bytes(_)
from_le_bytes(bytes) ==
    IF bytes = <<>> THEN 0
    ELSE Head(bytes) + 256 * from_le_bytes(Tail(bytes))

Zeroed(len) == [i \in 1..len |-> 0]

\* bytes[lo..hi), Rust's half-open slice with offsets counted from 0
Slice(bytes, lo, hi) == SubSeq(bytes, lo + 1, hi)

\* dst with src copied over dst[at..at+len(src)), the rest of dst untouched
copy_from_slice(dst, at, src) ==
    [i \in 1..Len(dst) |->
        IF i > at /\ i <= at + Len(src) THEN src[i - at] ELSE dst[i]]

\* Pubkey::to_bytes / Pubkey::new: the 32 bytes of a key
PubkeyBytes(key) ==
    <<CASE key = T1 -> 1 [] key = T2 -> 2 [] key = P -> 3 [] OTHER -> 9>>
        \o Zeroed(PUBKEY_BYTES - 1)

(***************************************************************************)
(* Checked arithmetic on the unsigned word                                 *)
(***************************************************************************)
\* Option<u64>: None is the empty sequence, Some(v) the sequence <<v>>
None == <<>>
Some(v) == <<v>>

checked_add_wrapping(a, b) == Some((a + b) % (U64_MAX + 1))

checked_add(a, b) == IF a + b > U64_MAX THEN None ELSE Some(a + b)

checked_sub_wrapping(a, b) == Some((a - b) % (U64_MAX + 1))

checked_sub(a, b) == IF a < b THEN None ELSE Some(a - b)

(***************************************************************************)
(* TokenAccount and its 41-byte layout                                     *)
(***************************************************************************)
TokenAccount(is_initialized, owner, amount) ==
    [is_initialized |-> is_initialized, owner |-> owner, amount |-> amount]

\* owner is kept as its 32 bytes
unpack_from_slice(src) ==
    IF Len(src) # TokenAccount_LEN
    THEN [res |-> "InvalidAccountData", val |-> None]
    ELSE [res |-> "Ok",
          val |-> TokenAccount(src[1] # 0,
                               Slice(src, 1, 1 + PUBKEY_BYTES),
                               from_le_bytes(Slice(src, 1 + PUBKEY_BYTES, TokenAccount_LEN)))]

pack_into_slice_amount_first(self, dst) ==
    IF Len(dst) # TokenAccount_LEN THEN dst
    ELSE to_le_bytes(self.amount, U64_BYTES) \o self.owner
            \o <<IF self.is_initialized THEN 1 ELSE 0>>

pack_into_slice(self, dst) ==
    IF Len(dst) # TokenAccount_LEN THEN dst
    ELSE <<IF self.is_initialized THEN 1 ELSE 0>> \o self.owner
            \o to_le_bytes(self.amount, U64_BYTES)

\* Pack::unpack_unchecked: length check, then unpack_from_slice
unpack_unchecked(input) ==
    IF Len(input) # TokenAccount_LEN
    THEN [res |-> "InvalidAccountData", val |-> None]
    ELSE unpack_from_slice(input)

\* Pack::unpack: unpack_unchecked, then the is_initialized check
unpack(input) ==
    LET value == unpack_unchecked(input)
    IN  IF value.res # "Ok" THEN value
        ELSE IF ~value.val.is_initialized
        THEN [res |-> "UninitializedAccount", val |-> None]
        ELSE value

\* Pack::pack: length check, then pack_into_slice
pack(src, dst) ==
    IF Len(dst) # TokenAccount_LEN
    THEN [res |-> "InvalidAccountData", bytes |-> dst]
    ELSE [res |-> "Ok", bytes |-> pack_into_slice(src, dst)]

(***************************************************************************)
(* Results of an operation: the error (or "Ok") and the store it leaves    *)
(***************************************************************************)
Err(d, e) == [res |-> e, data |-> d]
Done(d) == [res |-> "Ok", data |-> d]

AccountInfo(key, is_signer, is_writable) ==
    [key |-> key, is_signer |-> is_signer, is_writable |-> is_writable]

Contains(list, x) == \E i \in 1..Len(list) : list[i] = x

check_authorization_any(account, authorized_accounts) == TRUE

check_authorization_empty_allows(account, authorized_accounts) ==
    authorized_accounts = <<>> \/ Contains(authorized_accounts, account.key)

\* TRUE stands for Ok(()), FALSE for Err(Unauthorized)
check_authorization(account, authorized_accounts) ==
    Contains(authorized_accounts, account.key)

(***************************************************************************)
(* DHelixToken::mint / transfer / burn                                     *)
(***************************************************************************)
mint(d, accounts, amount, authorized_accounts) ==
    IF Len(accounts) < 3 THEN Err(d, "NotEnoughAccountKeys") ELSE
    LET mint_account == accounts[1]
        destination_account == accounts[2]
    IN
    IF ~check_authorization(mint_account, authorized_accounts) THEN Err(d, "Unauthorized") ELSE
    IF ~mint_account.is_signer THEN Err(d, "MissingRequiredSignature") ELSE
    IF ~destination_account.is_writable THEN Err(d, "InvalidDestinationAccount") ELSE
    LET destination_token_account == unpack_unchecked(d[destination_account.key]) IN
    IF destination_token_account.res # "Ok" THEN Err(d, destination_token_account.res) ELSE
    LET sum == checked_add(destination_token_account.val.amount, amount) IN
    IF sum = None THEN Err(d, "OverflowError") ELSE
    LET packed == pack([destination_token_account.val EXCEPT !.amount = sum[1]],
                       d[destination_account.key])
    IN
    IF packed.res # "Ok" THEN Err(d, packed.res) ELSE
    Done([d EXCEPT ![destination_account.key] = packed.bytes])

\* the debited source is written before the credit is computed
transfer_debit_written_first(d, accounts, amount, authorized_accounts) ==
    IF Len(accounts) < 3 THEN Err(d, "NotEnoughAccountKeys") ELSE
    IF ~check_authorization(accounts[1], authorized_accounts) THEN Err(d, "Unauthorized") ELSE
    IF ~accounts[1].is_signer THEN Err(d, "MissingRequiredSignature") ELSE
    IF ~accounts[1].is_writable \/ ~accounts[2].is_writable
    THEN Err(d, "InvalidDestinationAccount") ELSE
    LET source_token_account == unpack_unchecked(d[accounts[1].key])
        destination_token_account == unpack_unchecked(d[accounts[2].key])
    IN
    IF source_token_account.res # "Ok" THEN Err(d, source_token_account.res) ELSE
    IF destination_token_account.res # "Ok" THEN Err(d, destination_token_account.res) ELSE
    IF ~source_token_account.val.is_initialized THEN Err(d, "UninitializedAccount") ELSE
    IF ~destination_token_account.val.is_initialized THEN Err(d, "UninitializedAccount") ELSE
    IF source_token_account.val.amount < amount THEN Err(d, "InsufficientFunds") ELSE
    LET debited == checked_sub(source_token_account.val.amount, amount)
        d1 == [d EXCEPT ![accounts[1].key] =
                  pack([source_token_account.val EXCEPT !.amount = debited[1]],
                       d[accounts[1].key]).bytes]
        credited == checked_add(destination_token_account.val.amount, amount)
    IN
    IF credited = None THEN Err(d1, "OverflowError") ELSE
    Done([d1 EXCEPT ![accounts[2].key] =
             pack([destination_token_account.val EXCEPT !.amount = credited[1]],
                  d1[accounts[2].key]).bytes])

\* transfer without the check of the destination's is_initialized flag
transfer_unchecked_destination(d, accounts, amount, authorized_accounts) ==
    IF Len(accounts) < 3 THEN Err(d, "NotEnoughAccountKeys") ELSE
    LET source_account == accounts[1]
        destination_account == accounts[2]
    IN
    IF ~check_authorization(source_account, authorized_accounts) THEN Err(d, "Unauthorized") ELSE
    IF ~source_account.is_signer THEN Err(d, "MissingRequiredSignature") ELSE
    IF ~source_account.is_writable \/ ~destination_account.is_writable
    THEN Err(d, "InvalidDestinationAccount") ELSE
    LET source_token_account == unpack_unchecked(d[source_account.key])
        destination_token_account == unpack_unchecked(d[destination_account.key])
    IN
    IF source_token_account.res # "Ok" THEN Err(d, source_token_account.res) ELSE
    IF destination_token_account.res # "Ok" THEN Err(d, destination_token_account.res) ELSE
    IF ~source_token_account.val.is_initialized THEN Err(d, "UninitializedAccount") ELSE
    IF source_token_account.val.amount < amount THEN Err(d, "InsufficientFunds") ELSE
    LET debited == checked_sub(source_token_account.val.amount, amount) IN
    IF debited = None THEN Err(d, "UnderflowError") ELSE
    LET credited == checked_add(destination_token_account.val.amount, amount) IN
    IF credited = None THEN Err(d, "OverflowError") ELSE
    LET packed_source == pack([source_token_account.val EXCEPT !.amount = debited[1]],
                              d[source_account.key])
    IN
    IF packed_source.res # "Ok" THEN Err(d, packed_source.res) ELSE
    LET d1 == [d EXCEPT ![source_account.key] = packed_source.bytes]
        packed_destination == pack([destination_token_account.val EXCEPT !.amount = credited[1]],
                                   d1[destination_account.key])
    IN
    IF packed_destination.res # "Ok" THEN Err(d1, packed_destination.res) ELSE
    Done([d1 EXCEPT ![destination_account.key] = packed_destination.bytes])

transfer(d, accounts, amount, authorized_accounts) ==
    IF Len(accounts) < 3 THEN Err(d, "NotEnoughAccountKeys") ELSE
    LET source_account == accounts[1]
        destination_account == accounts[2]
    IN
    IF ~check_authorization(source_account, authorized_accounts) THEN Err(d, "Unauthorized") ELSE
    IF ~source_account.is_signer THEN Err(d, "MissingRequiredSignature") ELSE
    IF ~source_account.is_writable \/ ~destination_account.is_writable
    THEN Err(d, "InvalidDestinationAccount") ELSE
    LET source_token_account == unpack_unchecked(d[source_account.key])
        destination_token_account == unpack_unchecked(d[destination_account.key])
    IN
    IF source_token_account.res # "Ok" THEN Err(d, source_token_account.res) ELSE
    IF destination_token_account.res # "Ok" THEN Err(d, destination_token_account.res) ELSE
    IF ~source_token_account.val.is_initialized THEN Err(d, "UninitializedAccount") ELSE
    IF ~destination_token_account.val.is_initialized THEN Err(d, "UninitializedAccount") ELSE
    IF source_token_account.val.amount < amount THEN Err(d, "InsufficientFunds") ELSE
    LET debited == checked_sub(source_token_account.val.amount, amount) IN
    IF debited = None THEN Err(d, "UnderflowError") ELSE
    LET credited == checked_add(destination_token_account.val.amount, amount) IN
    IF credited = None THEN Err(d, "OverflowError") ELSE
    \* the source is written first, the destination second: when both entries
    \* have the same key the second write lands on the same bytes
    LET packed_source == pack([source_token_account.val EXCEPT !.amount = debited[1]],
                              d[source_account.key])
    IN
    IF packed_source.res # "Ok" THEN Err(d, packed_source.res) ELSE
    LET d1 == [d EXCEPT ![source_account.key] = packed_source.bytes]
        packed_destination == pack([destination_token_account.val EXCEPT !.amount = credited[1]],
                                   d1[destination_account.key])
    IN
    IF packed_destination.res # "Ok" THEN Err(d1, packed_destination.res) ELSE
    Done([d1 EXCEPT ![destination_account.key] = packed_destination.bytes])

burn_without_funds_check(d, accounts, amount, authorized_accounts) ==
    IF Len(accounts) < 2 THEN Err(d, "NotEnoughAccountKeys") ELSE
    LET burn_account == accounts[1] IN
    IF ~check_authorization(burn_account, authorized_accounts) THEN Err(d, "Unauthorized") ELSE
    IF ~burn_account.is_signer THEN Err(d, "MissingRequiredSignature") ELSE
    IF ~burn_account.is_writable THEN Err(d, "InvalidDestinationAccount") ELSE
    LET burn_token_account == unpack_unchecked(d[burn_account.key]) IN
    IF ~burn_token_account.val.is_initialized THEN Err(d, "UninitializedAccount") ELSE
    LET left == checked_sub(burn_token_account.val.amount, amount) IN
    IF left = None THEN Err(d, "UnderflowError") ELSE
    Done([d EXCEPT ![burn_account.key] =
             pack([burn_token_account.val EXCEPT !.amount = left[1]], d[burn_account.key]).bytes])

burn(d, accounts, amount, authorized_accounts) ==
    IF Len(accounts) < 2 THEN Err(d, "NotEnoughAccountKeys") ELSE
    LET burn_account == accounts[1] IN
    IF ~check_authorization(burn_account, authorized_accounts) THEN Err(d, "Unauthorized") ELSE
    IF ~burn_account.is_signer THEN Err(d, "MissingRequiredSignature") ELSE
    IF ~burn_account.is_writable THEN Err(d, "InvalidDestinationAccount") ELSE
    LET burn_token_account == unpack_unchecked(d[burn_account.key]) IN
    IF burn_token_account.res # "Ok" THEN Err(d, burn_token_account.res) ELSE
    IF ~burn_token_account.val.is_initialized THEN Err(d, "UninitializedAccount") ELSE
    IF burn_token_account.val.amount < amount THEN Err(d, "InsufficientFunds") ELSE
    LET left == checked_sub(burn_token_account.val.amount, amount) IN
    IF left = None THEN Err(d, "UnderflowError") ELSE
    LET packed == pack([burn_token_account.val EXCEPT !.amount = left[1]], d[burn_account.key]) IN
    IF packed.res # "Ok" THEN Err(d, packed.res) ELSE
    Done([d EXCEPT ![burn_account.key] = packed.bytes])

(***************************************************************************)
(* Borsh encoding of the four persisted records                            *)
(* (the derives of ProposalsState, VotesState, BalancesState, SystemState).*)
(* A map is its u32 entry count, then the entries in ascending key order;  *)
(* a Vec is its u32 length, then the elements; a bool is one byte, 0 or 1. *)
(* Decoding fails on a short input, on a bool byte other than 0 or 1 and   *)
(* when bytes are left over (try_from_slice).                              *)
(***************************************************************************)
Fail == [ok |-> FALSE, val |-> None, rest |-> <<>>]
Parsed(v, rest) == [ok |-> TRUE, val |-> v, rest |-> rest]

EmptyMap == [k \in {} |-> None]
Insert(map, key, value) == [k \in DOMAIN map \cup {key} |-> IF k = key THEN value ELSE map[k]]
Remove(map, key) == [k \in DOMAIN map \ {key} |-> map[k]]

\* lexicographic order of two byte strings of the same length (Pubkey's Ord)
RECURSIVE BytesLess(_, _)
BytesLess(a, b) ==
    IF a = <<>> THEN FALSE
    ELSE IF Head(a) # Head(b) THEN Head(a) < Head(b)
    ELSE BytesLess(Tail(a), Tail(b))

\* the keys of a map in ascending order, as borsh writes them
RECURSIVE SortedU64(_)
SortedU64(keys) ==
    IF keys = {} THEN <<>>
    ELSE LET least == CHOOSE k \in keys : \A other \in keys : k <= other
         IN  <<least>> \o SortedU64(keys \ {least})

RECURSIVE SortedPubkeys(_)
SortedPubkeys(keys) ==
    IF keys = {} THEN <<>>
    ELSE LET least == CHOOSE k \in keys : \A other \in keys : ~BytesLess(other, k)
         IN  <<least>> \o SortedPubkeys(keys \ {least})

RECURSIVE Concat(_)
Concat(seqs) == IF seqs = <<>> THEN <<>> ELSE Head(seqs) \o Concat(Tail(seqs))

read_u32(bytes) ==
    IF Len(bytes) < U32_BYTES THEN Fail
    ELSE Parsed(from_le_bytes(Slice(bytes, 0, U32_BYTES)), Slice(bytes, U32_BYTES, Len(bytes)))

read_u64(bytes) ==
    IF Len(bytes) < U64_BYTES THEN Fail
    ELSE Parsed(from_le_bytes(Slice(bytes, 0, U64_BYTES)), Slice(bytes, U64_BYTES, Len(bytes)))

read_pubkey(bytes) ==
    IF Len(bytes) < PUBKEY_BYTES THEN Fail
    ELSE Parsed(Slice(bytes, 0, PUBKEY_BYTES), Slice(bytes, PUBKEY_BYTES, Len(bytes)))

read_bool(bytes) ==
    IF Len(bytes) < 1 \/ Head(bytes) > 1 THEN Fail
    ELSE Parsed(Head(bytes) = 1, Tail(bytes))

read_bytes(bytes) ==
    LET len == read_u32(bytes) IN
    IF ~len.ok \/ Len(len.rest) < len.val THEN Fail
    ELSE Parsed(Slice(len.rest, 0, len.val), Slice(len.rest, len.val, Len(len.rest)))

\* ---- ProposalsState { proposals: HashMap<u64, Vec<u8>> }
serialize_proposals(state) ==
    LET keys == SortedU64(DOMAIN state)
    IN  to_le_bytes(Len(keys), U32_BYTES)
        \o Concat([i \in 1..Len(keys) |->
                to_le_bytes(keys[i], U64_BYTES)
                \o to_le_bytes(Len(state[keys[i]]), U32_BYTES) \o state[keys[i]]])

RECURSIVE read_proposals(_, _, _)
read_proposals(bytes, count, map) ==
    IF count = 0 THEN Parsed(map, bytes)
    ELSE LET key == read_u64(bytes) IN
         IF ~key.ok THEN Fail
         ELSE LET value == read_bytes(key.rest) IN
              IF ~value.ok THEN Fail
              ELSE read_proposals(value.rest, count - 1, Insert(map, key.val, value.val))

deserialize_proposals(bytes) ==
    LET count == read_u32(bytes) IN
    IF ~count.ok THEN Fail
    ELSE LET map == read_proposals(count.rest, count.val, EmptyMap) IN
         IF ~map.ok \/ map.rest # <<>> THEN Fail ELSE map

\* ---- VotesState { votes: HashMap<u64, Vec<(Pubkey, bool)>> }
serialize_vote_list(list) ==
    to_le_bytes(Len(list), U32_BYTES)
    \o Concat([i \in 1..Len(list) |-> list[i][1] \o <<IF list[i][2] THEN 1 ELSE 0>>])

serialize_votes(state) ==
    LET keys == SortedU64(DOMAIN state)
    IN  to_le_bytes(Len(keys), U32_BYTES)
        \o Concat([i \in 1..Len(keys) |->
                to_le_bytes(keys[i], U64_BYTES) \o serialize_vote_list(state[keys[i]])])

RECURSIVE read_vote_pairs(_, _, _)
read_vote_pairs(bytes, count, list) ==
    IF count = 0 THEN Parsed(list, bytes)
    ELSE LET voter == read_pubkey(bytes) IN
         IF ~voter.ok THEN Fail
         ELSE LET vote == read_bool(voter.rest) IN
              IF ~vote.ok THEN Fail
              ELSE read_vote_pairs(vote.rest, count - 1, Append(list, <<voter.val, vote.val>>))

RECURSIVE read_votes(_, _, _)
read_votes(bytes, count, map) ==
    IF count = 0 THEN Parsed(map, bytes)
    ELSE LET key == read_u64(bytes) IN
         IF ~key.ok THEN Fail
         ELSE LET len == read_u32(key.rest) IN
              IF ~len.ok THEN Fail
              ELSE LET list == read_vote_pairs(len.rest, len.val, <<>>) IN
                   IF ~list.ok THEN Fail
                   ELSE read_votes(list.rest, count - 1, Insert(map, key.val, list.val))

deserialize_votes(bytes) ==
    LET count == read_u32(bytes) IN
    IF ~count.ok THEN Fail
    ELSE LET map == read_votes(count.rest, count.val, EmptyMap) IN
         IF ~map.ok \/ map.rest # <<>> THEN Fail ELSE map

\* ---- BalancesState { balances: HashMap<Pubkey, u64> }, keyed by the 32 key bytes
serialize_balances(state) ==
    LET keys == SortedPubkeys(DOMAIN state)
    IN  to_le_bytes(Len(keys), U32_BYTES)
        \o Concat([i \in 1..Len(keys) |-> keys[i] \o to_le_bytes(state[keys[i]], U64_BYTES)])

RECURSIVE read_balances(_, _, _)
read_balances(bytes, count, map) ==
    IF count = 0 THEN Parsed(map, bytes)
    ELSE LET key == read_pubkey(bytes) IN
         IF ~key.ok THEN Fail
         ELSE LET value == read_u64(key.rest) IN
              IF ~value.ok THEN Fail
              ELSE read_balances(value.rest, count - 1, Insert(map, key.val, value.val))

deserialize_balances(bytes) ==
    LET count == read_u32(bytes) IN
    IF ~count.ok THEN Fail
    ELSE LET map == read_balances(count.rest, count.val, EmptyMap) IN
         IF ~map.ok \/ map.rest # <<>> THEN Fail ELSE map

\* ---- SystemState { halt: bool, insurance_pool: u64 }
SystemState(halt, insurance_pool) == [halt |-> halt, insurance_pool |-> insurance_pool]

serialize_system(state) ==
    <<IF state.halt THEN 1 ELSE 0>> \o to_le_bytes(state.insurance_pool, U64_BYTES)

deserialize_system(bytes) ==
    LET halt == read_bool(bytes) IN
    IF ~halt.ok THEN Fail
    ELSE LET pool == read_u64(halt.rest) IN
         IF ~pool.ok \/ pool.rest # <<>> THEN Fail
         ELSE Parsed(SystemState(halt.val, pool.val), <<>>)

(***************************************************************************)
(* Fixed-buffer codec: store_*_state / load_*_state                        *)
(* A result is [res, bytes]: the error and the region's bytes afterwards;  *)
(* a load is [res, val].                                                   *)
(***************************************************************************)
Stored(region) == [res |-> "Ok", bytes |-> region]
StoreErr(region, e) == [res |-> e, bytes |-> region]
Loaded(v) == [res |-> "Ok", val |-> v]
LoadErr(e) == [res |-> e, val |-> None]

\* data_ref[..data_len].copy_from_slice(&data);
\* data_ref[data_ref_len - 8..].copy_from_slice(&(data_len as u64).to_le_bytes())
write_payload_only(region, bytes) == copy_from_slice(region, 0, bytes)

write_with_trailer(region, bytes) ==
    copy_from_slice(copy_from_slice(region, 0, bytes),
                    Len(region) - TRAILER_LEN, to_le_bytes(Len(bytes), U64_BYTES))

\* the size check comes first, the validation of data_len second
store_size_first(region, bytes) ==
    IF Len(region) < Len(bytes) + TRAILER_LEN THEN StoreErr(region, "AccountDataTooSmall")
    ELSE IF Len(bytes) = 0 \/ Len(bytes) > Len(region) - TRAILER_LEN
    THEN StoreErr(region, "InvalidAccountData")
    ELSE Stored(write_with_trailer(region, bytes))

\* the validation computes account.data_len() - 8 before any size check: on a
\* region of fewer than 8 bytes the subtraction aborts in a build with overflow
\* checks and wraps to a huge value in a build without
store_validate_first(region, bytes, overflow_checks) ==
    IF Len(region) < TRAILER_LEN /\ overflow_checks THEN StoreErr(region, "Panic")
    ELSE IF Len(bytes) = 0 \/ (Len(region) >= TRAILER_LEN /\ Len(bytes) > Len(region) - TRAILER_LEN)
    THEN StoreErr(region, "InvalidAccountData")
    ELSE IF Len(region) < Len(bytes) + TRAILER_LEN THEN StoreErr(region, "AccountDataTooSmall")
    ELSE Stored(write_with_trailer(region, bytes))

store_proposals_state(region, state) == store_size_first(region, serialize_proposals(state))

store_votes_state(region, state, overflow_checks) ==
    store_validate_first(region, serialize_votes(state), overflow_checks)

store_balances_state(region, state, overflow_checks) ==
    store_validate_first(region, serialize_balances(state), overflow_checks)

store_system_state(region, state, overflow_checks) ==
    store_validate_first(region, serialize_system(state), overflow_checks)

\* the trailer is trusted as far as the region's full length
serialized_prefix_unchecked(region) ==
    IF Len(region) < TRAILER_LEN THEN LoadErr("InvalidAccountData")
    ELSE LET serialized_len == from_le_bytes(Slice(region, Len(region) - TRAILER_LEN, Len(region)))
         IN  IF serialized_len > Len(region) THEN LoadErr("InvalidAccountData")
             ELSE Loaded(Slice(region, 0, serialized_len))

\* the valid prefix &account_data[..serialized_len] that a load deserializes
serialized_prefix(region) ==
    IF Len(region) < TRAILER_LEN THEN LoadErr("InvalidAccountData")
    ELSE LET data_len_position == Len(region) - TRAILER_LEN
             serialized_len_bytes == Slice(region, data_len_position, Len(region))
         IN  IF \A i \in 1..TRAILER_LEN : serialized_len_bytes[i] = 0
             THEN LoadErr("InvalidAccountData")
             ELSE LET serialized_len == from_le_bytes(serialized_len_bytes) IN
                  IF serialized_len = 0 \/ serialized_len > data_len_position
                  THEN LoadErr("InvalidAccountData")
                  ELSE Loaded(Slice(region, 0, serialized_len))

\* try_from_slice(..).map_err(|_| InvalidAccountData)
map_err(parsed) == IF parsed.ok THEN Loaded(parsed.val) ELSE LoadErr("InvalidAccountData")

load_proposals_state(region) ==
    LET serialized_state == serialized_prefix(region) IN
    IF serialized_state.res # "Ok" THEN serialized_state
    ELSE map_err(deserialize_proposals(serialized_state.val))

load_votes_state(region) ==
    LET serialized_state == serialized_prefix(region) IN
    IF serialized_state.res # "Ok" THEN serialized_state
    ELSE map_err(deserialize_votes(serialized_state.val))

load_balances_state(region) ==
    LET serialized_state == serialized_prefix(region) IN
    IF serialized_state.res # "Ok" THEN serialized_state
    ELSE map_err(deserialize_balances(serialized_state.val))

load_system_state(region) ==
    LET serialized_state == serialized_prefix(region) IN
    IF serialized_state.res # "Ok" THEN serialized_state
    ELSE map_err(deserialize_system(serialized_state.val))

\* tests::initialize_state_account: an empty map and its trailer on a zeroed region
initialize_state_account(capacity) ==
    write_with_trailer(Zeroed(capacity), serialize_proposals(EmptyMap))

(***************************************************************************)
(* DHelixDAO::submit_proposal / execute_proposal                           *)
(***************************************************************************)
submit_proposal_overwrite(d, accounts, proposal_id, proposal_data) ==
    IF Len(accounts) < 2 THEN Err(d, "NotEnoughAccountKeys") ELSE
    LET proposer_account == accounts[1]
        proposals_state_account == accounts[2]
    IN
    IF ~proposer_account.is_signer THEN Err(d, "MissingRequiredSignature") ELSE
    IF Len(proposal_data) > MAX_PROPOSAL_DATA THEN Err(d, "InvalidInstructionData") ELSE
    LET state == load_proposals_state(d[proposals_state_account.key]) IN
    IF state.res # "Ok" THEN Err(d, state.res) ELSE
    LET stored == store_proposals_state(d[proposals_state_account.key],
                                        Insert(state.val, proposal_id, proposal_data))
    IN
    IF stored.res # "Ok" THEN Err(d, stored.res) ELSE
    Done([d EXCEPT ![proposals_state_account.key] = stored.bytes])

submit_proposal_unbounded(d, accounts, proposal_id, proposal_data) ==
    IF Len(accounts) < 2 THEN Err(d, "NotEnoughAccountKeys") ELSE
    LET proposer_account == accounts[1]
        proposals_state_account == accounts[2]
    IN
    IF ~proposer_account.is_signer THEN Err(d, "MissingRequiredSignature") ELSE
    LET state == load_proposals_state(d[proposals_state_account.key]) IN
    IF state.res # "Ok" THEN Err(d, state.res) ELSE
    IF proposal_id \in DOMAIN state.val THEN Err(d, "InvalidArgument") ELSE
    LET stored == store_proposals_state(d[proposals_state_account.key],
                                        Insert(state.val, proposal_id, proposal_data))
    IN
    IF stored.res # "Ok" THEN Err(d, stored.res) ELSE
    Done([d EXCEPT ![proposals_state_account.key] = stored.bytes])

submit_proposal(d, accounts, proposal_id, proposal_data) ==
    IF Len(accounts) < 2 THEN Err(d, "NotEnoughAccountKeys") ELSE
    LET proposer_account == accounts[1]
        proposals_state_account == accounts[2]
    IN
    IF ~proposer_account.is_signer THEN Err(d, "MissingRequiredSignature") ELSE
    IF Len(proposal_data) > MAX_PROPOSAL_DATA THEN Err(d, "InvalidInstructionData") ELSE
    LET state == load_proposals_state(d[proposals_state_account.key]) IN
    IF state.res # "Ok" THEN Err(d, state.res) ELSE
    IF proposal_id \in DOMAIN state.val THEN Err(d, "InvalidArgument") ELSE
    LET stored == store_proposals_state(d[proposals_state_account.key],
                                        Insert(state.val, proposal_id, proposal_data))
    IN
    IF stored.res # "Ok" THEN Err(d, stored.res) ELSE
    Done([d EXCEPT ![proposals_state_account.key] = stored.bytes])

\* accounts.iter().find(|acc| acc.key == &key): the first supplied account
\* with that key, 0 when there is none
find(accounts, key_bytes) ==
    IF \E i \in 1..Len(accounts) : PubkeyBytes(accounts[i].key) = key_bytes
    THEN CHOOSE i \in 1..Len(accounts) :
            /\ PubkeyBytes(accounts[i].key) = key_bytes
            /\ \A j \in 1..(i - 1) : PubkeyBytes(accounts[j].key) # key_bytes
    ELSE 0

\* the Mint arm (action 0): the result is the store after the token write
execute_mint(d, token_account, proposal_data) ==
    IF Len(proposal_data) < 1 + U64_BYTES THEN Err(d, "Panic") ELSE
    LET amount == from_le_bytes(Slice(proposal_data, 1, 1 + U64_BYTES))
        token_account_state == unpack(d[token_account.key])
    IN
    IF token_account_state.res # "Ok" THEN Err(d, token_account_state.res) ELSE
    LET sum == checked_add(token_account_state.val.amount, amount) IN
    IF sum = None THEN Err(d, "OverflowError") ELSE
    LET packed == pack([token_account_state.val EXCEPT !.amount = sum[1]], d[token_account.key]) IN
    IF packed.res # "Ok" THEN Err(d, packed.res) ELSE
    Done([d EXCEPT ![token_account.key] = packed.bytes])

\* the Transfer arm once both accounts are found: unpack, check, debit, credit,
\* write the source, write the destination
execute_transfer_move_debit_first(d, source_account, destination_account, amount) ==
    LET source_account_state == unpack(d[source_account.key])
        destination_account_state == unpack(d[destination_account.key])
    IN
    IF source_account_state.res # "Ok" THEN Err(d, source_account_state.res) ELSE
    IF destination_account_state.res # "Ok" THEN Err(d, destination_account_state.res) ELSE
    IF source_account_state.val.amount < amount THEN Err(d, "InsufficientFunds") ELSE
    LET debited == checked_sub(source_account_state.val.amount, amount)
        d1 == [d EXCEPT ![source_account.key] =
                  pack([source_account_state.val EXCEPT !.amount = debited[1]],
                       d[source_account.key]).bytes]
        credited == checked_add(destination_account_state.val.amount, amount)
    IN
    IF credited = None THEN Err(d1, "OverflowError") ELSE
    Done([d1 EXCEPT ![destination_account.key] =
             pack([destination_account_state.val EXCEPT !.amount = credited[1]],
                  d1[destination_account.key]).bytes])

execute_transfer_move(d, source_account, destination_account, amount) ==
    LET source_account_state == unpack(d[source_account.key])
        destination_account_state == unpack(d[destination_account.key])
    IN
    IF source_account_state.res # "Ok" THEN Err(d, source_account_state.res) ELSE
    IF destination_account_state.res # "Ok" THEN Err(d, destination_account_state.res) ELSE
    IF source_account_state.val.amount < amount THEN Err(d, "InsufficientFunds") ELSE
    LET debited == checked_sub(source_account_state.val.amount, amount) IN
    IF debited = None THEN Err(d, "UnderflowError") ELSE
    LET credited == checked_add(destination_account_state.val.amount, amount) IN
    IF credited = None THEN Err(d, "OverflowError") ELSE
    \* both writes go to the buffer stored under the account's key: with one key
    \* for source and destination the second write replaces the first
    LET packed_source == pack([source_account_state.val EXCEPT !.amount = debited[1]],
                              d[source_account.key])
    IN
    IF packed_source.res # "Ok" THEN Err(d, packed_source.res) ELSE
    LET d1 == [d EXCEPT ![source_account.key] = packed_source.bytes]
        packed_destination == pack([destination_account_state.val EXCEPT !.amount = credited[1]],
                                   d1[destination_account.key])
    IN
    IF packed_destination.res # "Ok" THEN Err(d1, packed_destination.res) ELSE
    Done([d1 EXCEPT ![destination_account.key] = packed_destination.bytes])

\* the Transfer arm (action 1): the payload's fields and the account lookup
execute_transfer(d, accounts, proposal_data) ==
    IF Len(proposal_data) < 1 + U64_BYTES + 2 * PUBKEY_BYTES THEN Err(d, "Panic") ELSE
    LET amount == from_le_bytes(Slice(proposal_data, 1, 1 + U64_BYTES))
        source_key == Slice(proposal_data, 1 + U64_BYTES, 1 + U64_BYTES + PUBKEY_BYTES)
        destination_key == Slice(proposal_data, 1 + U64_BYTES + PUBKEY_BYTES,
                                 1 + U64_BYTES + 2 * PUBKEY_BYTES)
        source_index == find(accounts, source_key)
        destination_index == find(accounts, destination_key)
    IN
    IF source_index = 0 THEN Err(d, "InvalidAccountData") ELSE
    IF destination_index = 0 THEN Err(d, "InvalidAccountData") ELSE
    execute_transfer_move(d, accounts[source_index], accounts[destination_index], amount)

\* state.proposals.remove(&proposal_id); store_proposals_state(..)?
remove_and_store_keep(d, proposals_state_account, state, proposal_id) ==
    LET stored == store_proposals_state(d[proposals_state_account.key], state) IN
    IF stored.res # "Ok" THEN Err(d, stored.res) ELSE
    Done([d EXCEPT ![proposals_state_account.key] = stored.bytes])

remove_and_store(d, proposals_state_account, state, proposal_id) ==
    LET stored == store_proposals_state(d[proposals_state_account.key],
                                        Remove(state, proposal_id))
    IN
    IF stored.res # "Ok" THEN Err(d, stored.res) ELSE
    Done([d EXCEPT ![proposals_state_account.key] = stored.bytes])

\* execute_proposal as it would be if a payload of an unknown action were
\* executed as a no-op and removed
execute_proposal_dropping_unknown(d, accounts, proposal_id) ==
    IF Len(accounts) < 4 THEN Err(d, "NotEnoughAccountKeys") ELSE
    LET executor_account == accounts[1]
        proposals_state_account == accounts[2]
        token_account == accounts[3]
    IN
    IF ~executor_account.is_signer THEN Err(d, "MissingRequiredSignature") ELSE
    LET state == load_proposals_state(d[proposals_state_account.key]) IN
    IF state.res # "Ok" THEN Err(d, state.res) ELSE
    IF proposal_id \notin DOMAIN state.val THEN Err(d, "InvalidInstructionData") ELSE
    LET proposal_data == state.val[proposal_id] IN
    IF Len(proposal_data) < 1 THEN Err(d, "Panic") ELSE
    LET action == proposal_data[1]
        executed == IF action = 0 THEN execute_mint(d, token_account, proposal_data)
                    ELSE IF action = 1 THEN execute_transfer(d, accounts, proposal_data)
                    ELSE Done(d)
    IN
    IF executed.res # "Ok" THEN executed ELSE
    remove_and_store(executed.data, proposals_state_account, state.val, proposal_id)

\* execute_proposal as it would be if it executed only a proposal that the
\* votes region of the store records a vote for
execute_proposal_after_vote(d, accounts, proposal_id) ==
    IF Len(accounts) < 4 THEN Err(d, "NotEnoughAccountKeys") ELSE
    LET executor_account == accounts[1]
        proposals_state_account == accounts[2]
        token_account == accounts[3]
    IN
    IF ~executor_account.is_signer THEN Err(d, "MissingRequiredSignature") ELSE
    LET state == load_proposals_state(d[proposals_state_account.key]) IN
    IF state.res # "Ok" THEN Err(d, state.res) ELSE
    IF proposal_id \notin DOMAIN state.val THEN Err(d, "InvalidInstructionData") ELSE
    IF /\ V \in DOMAIN d
       /\ LET votes == load_votes_state(d[V])
          IN  votes.res # "Ok" \/ proposal_id \notin DOMAIN votes.val
    THEN Err(d, "InvalidInstructionData") ELSE
    LET proposal_data == state.val[proposal_id] IN
    IF Len(proposal_data) < 1 THEN Err(d, "Panic") ELSE
    LET action == proposal_data[1]
        executed == IF action = 0 THEN execute_mint(d, token_account, proposal_data)
                    ELSE IF action = 1 THEN execute_transfer(d, accounts, proposal_data)
                    ELSE Err(d, "InvalidInstructionData")
    IN
    IF executed.res # "Ok" THEN executed ELSE
    remove_and_store(executed.data, proposals_state_account, state.val, proposal_id)

execute_proposal(d, accounts, proposal_id) ==
    IF Len(accounts) < 4 THEN Err(d, "NotEnoughAccountKeys") ELSE
    LET executor_account == accounts[1]
        proposals_state_account == accounts[2]
        token_account == accounts[3]
    IN
    IF ~executor_account.is_signer THEN Err(d, "MissingRequiredSignature") ELSE
    LET state == load_proposals_state(d[proposals_state_account.key]) IN
    IF state.res # "Ok" THEN Err(d, state.res) ELSE
    IF proposal_id \notin DOMAIN state.val THEN Err(d, "InvalidInstructionData") ELSE
    LET proposal_data == state.val[proposal_id] IN
    \* data[0] on an empty payload indexes out of bounds
    IF Len(proposal_data) < 1 THEN Err(d, "Panic") ELSE
    LET action == proposal_data[1]
        executed == IF action = 0 THEN execute_mint(d, token_account, proposal_data)
                    ELSE IF action = 1 THEN execute_transfer(d, accounts, proposal_data)
                    ELSE Err(d, "InvalidInstructionData")
    IN
    IF executed.res # "Ok" THEN executed ELSE
    remove_and_store(executed.data, proposals_state_account, state.val, proposal_id)

(***************************************************************************)
(* Inputs of the invocations                                               *)
(***************************************************************************)
ArgAmounts == {1, U64_MAX}
\* the authorization list handed to the ledger operations: T1 is on it and T2
\* is not, or the list is empty
AuthLists == {<<T1>>, <<>>}
ProposalIds == {1, 2}
\* an id that is never submitted
AbsentId == Cardinality(ProposalIds) + 1

MintPayload(amount) == <<0>> \o to_le_bytes(amount, U64_BYTES)
TransferPayload(amount, source, destination) ==
    <<1>> \o to_le_bytes(amount, U64_BYTES) \o PubkeyBytes(source) \o PubkeyBytes(destination)

\* payloads submitted under id 1: a Mint, an unknown opcode, an empty payload,
\* a Mint cut short and a payload one byte over the limit
PayloadsOfId1 == {MintPayload(2), <<2>>, <<>>, <<0>>, Zeroed(MAX_PROPOSAL_DATA + 1)}
\* payloads submitted under id 2: a Transfer between the token accounts, one
\* from an account to itself, and a Transfer cut short
PayloadsOfId2 ==
    {TransferPayload(1, T1, T2), TransferPayload(1, T2, T2), <<1>> \o to_le_bytes(1, U64_BYTES)}
PayloadsOf(id) == IF id = 1 THEN PayloadsOfId1 ELSE PayloadsOfId2

\* the flags of an account are those of its key in the transaction
Account(key, signers, writables) == AccountInfo(key, key \in signers, key \in writables)

(***************************************************************************)
(* State machine                                                           *)
(***************************************************************************)
NoCall ==
    [op |-> "init", accounts |-> <<>>, arg |-> 0, authorized_accounts |-> <<>>,
     proposal_data |-> <<>>, res |-> "Ok"]

InitialTokenAccounts(key) ==
    {Zeroed(TokenAccount_LEN),
     pack_into_slice(TokenAccount(TRUE, PubkeyBytes(key), 0), Zeroed(TokenAccount_LEN))}

Init ==
    /\ data \in {d \in [Keys -> UNION {InitialTokenAccounts(k) : k \in TokenKeys}
                                  \cup {Zeroed(ProposalsCapacity),
                                        initialize_state_account(ProposalsCapacity)}] :
                    /\ \A k \in TokenKeys : d[k] \in InitialTokenAccounts(k)
                    /\ Len(d[P]) = ProposalsCapacity}
    /\ before = data
    /\ call = NoCall

\* an invocation starts when the host holds no result of an earlier one
Invoke(op, accounts, arg, authorized_accounts, proposal_data, outcome) ==
    /\ call.op = "init"
    /\ data' = outcome.data
    /\ before' = data
    /\ call' = [op |-> op, accounts |-> accounts, arg |-> arg,
                authorized_accounts |-> authorized_accounts,
                proposal_data |-> proposal_data, res |-> outcome.res]

Mint ==
    \E caller \in TokenKeys, destination \in TokenKeys, amount \in ArgAmounts,
       authorized_accounts \in AuthLists :
      \E signers \in SUBSET {caller}, writables \in SUBSET {destination} :
        LET accounts == <<Account(caller, signers, writables),
                          Account(destination, signers, writables),
                          Account(P, signers, writables)>>
        IN  Invoke("mint", accounts, amount, authorized_accounts, <<>>,
                   mint(data, accounts, amount, authorized_accounts))

Transfer ==
    \E source \in TokenKeys, destination \in TokenKeys, amount \in ArgAmounts,
       authorized_accounts \in AuthLists :
      \E signers \in SUBSET {source}, writables \in SUBSET {source, destination} :
        LET accounts == <<Account(source, signers, writables),
                          Account(destination, signers, writables),
                          Account(P, signers, writables)>>
        IN  Invoke("transfer", accounts, amount, authorized_accounts, <<>>,
                   transfer(data, accounts, amount, authorized_accounts))

Burn ==
    \E burner \in TokenKeys, amount \in ArgAmounts, authorized_accounts \in AuthLists :
      \E signers \in SUBSET {burner}, writables \in SUBSET {burner} :
        LET accounts == <<Account(burner, signers, writables),
                          Account(P, signers, writables)>>
        IN  Invoke("burn", accounts, amount, authorized_accounts, <<>>,
                   burn(data, accounts, amount, authorized_accounts))

SubmitProposal ==
    \E proposer \in {T1}, proposal_id \in ProposalIds :
      \E signers \in SUBSET {proposer}, proposal_data \in PayloadsOf(proposal_id) :
            LET accounts == <<Account(proposer, signers, {P}), Account(P, signers, {P})>>
            IN  Invoke("submit_proposal", accounts, proposal_id, <<>>, proposal_data,
                       submit_proposal(data, accounts, proposal_id, proposal_data))

\* the token accounts are handed writable, or read-only with only the
\* proposals region writable
ExecuteProposal ==
    \E executor \in {T1}, third \in TokenKeys, fourth \in TokenKeys,
       proposal_id \in ProposalIds \cup {AbsentId} :
      \E signers \in SUBSET {executor}, writables \in {TokenKeys \cup {P}, {P}} :
        LET accounts == <<Account(executor, signers, writables),
                          Account(P, signers, writables),
                          Account(third, signers, writables),
                          Account(fourth, signers, writables)>>
        IN  Invoke("execute_proposal", accounts, proposal_id, <<>>, <<>>,
                   execute_proposal(data, accounts, proposal_id))

\* the host takes the result and the account list back; the buffers stay
Return ==
    /\ call.op # "init"
    /\ data' = data
    /\ before' = data
    /\ call' = NoCall

Next == Mint \/ Transfer \/ Burn \/ SubmitProposal \/ ExecuteProposal \/ Return

Spec == Init /\ [][Next]_vars

(***************************************************************************)
(* The codec on its own: one region R of some capacity, holding whatever   *)
(* the host or an earlier store left in it, and the eight store and load   *)
(* functions applied to it in any order.  call.last_stored is the kind and *)
(* the record of the latest store that returned Ok.                        *)
(***************************************************************************)
R == "R"

CodecCapacities == {7, 9, 12, 17, 57, 92}

\* a zeroed region, and a zeroed region whose trailer holds a length that
\* cannot be right: one past the room before the trailer, or the whole capacity
InitialRegions ==
    UNION {{Zeroed(capacity)} \cup
           (IF capacity < TRAILER_LEN THEN {}
            ELSE {copy_from_slice(Zeroed(capacity), capacity - TRAILER_LEN,
                                  to_le_bytes(len, U64_BYTES)) :
                    len \in {capacity - TRAILER_LEN + 1, capacity}}) :
           capacity \in CodecCapacities}

ProposalsRecords == {EmptyMap, Insert(EmptyMap, 1, <<7>>),
                     Insert(Insert(EmptyMap, 2, <<8, 9>>), 1, <<>>)}
VotesRecords == {EmptyMap, Insert(EmptyMap, 1, <<<<PubkeyBytes(T1), TRUE>>>>),
                 Insert(EmptyMap, 2, <<<<PubkeyBytes(T2), FALSE>>, <<PubkeyBytes(T1), TRUE>>>>)}
BalancesRecords == {EmptyMap, Insert(EmptyMap, PubkeyBytes(T1), 1),
                    Insert(Insert(EmptyMap, PubkeyBytes(T2), U64_MAX), PubkeyBytes(T1), 0)}
SystemRecords == {SystemState(FALSE, 0), SystemState(TRUE, U64_MAX)}

CodecCall(op, kind, record, overflow_checks, res, last_stored) ==
    [op |-> op, kind |-> kind, record |-> record, overflow_checks |-> overflow_checks,
     res |-> res, last_stored |-> last_stored]

CodecInit ==
    /\ data \in {[k \in {R} |-> region] : region \in InitialRegions}
    /\ before = data
    /\ call = CodecCall("init", "none", <<>>, FALSE, "Ok", <<>>)

StoreStep(kind, record, overflow_checks, outcome) ==
    /\ data' = [data EXCEPT ![R] = outcome.bytes]
    /\ before' = data
    /\ call' = CodecCall("store", kind, record, overflow_checks, outcome.res,
                         IF outcome.res = "Ok" THEN <<kind, record>> ELSE call.last_stored)

LoadStep(kind, outcome) ==
    /\ data' = data
    /\ before' = data
    /\ call' = CodecCall("load", kind, outcome.val, FALSE, outcome.res, call.last_stored)

StoreProposals ==
    \E state \in ProposalsRecords :
        StoreStep("proposals", state, FALSE, store_proposals_state(data[R], state))

StoreVotes ==
    \E state \in VotesRecords, overflow_checks \in BOOLEAN :
        StoreStep("votes", state, overflow_checks,
                  store_votes_state(data[R], state, overflow_checks))

StoreBalances ==
    \E state \in BalancesRecords, overflow_checks \in BOOLEAN :
        StoreStep("balances", state, overflow_checks,
                  store_balances_state(data[R], state, overflow_checks))

StoreSystem ==
    \E state \in SystemRecords, overflow_checks \in BOOLEAN :
        StoreStep("system", state, overflow_checks,
                  store_system_state(data[R], state, overflow_checks))

LoadProposals == LoadStep("proposals", load_proposals_state(data[R]))
LoadVotes == LoadStep("votes", load_votes_state(data[R]))
LoadBalances == LoadStep("balances", load_balances_state(data[R]))
LoadSystem == LoadStep("system", load_system_state(data[R]))

CodecNext ==
    \/ StoreProposals \/ StoreVotes \/ StoreBalances \/ StoreSystem
    \/ LoadProposals \/ LoadVotes \/ LoadBalances \/ LoadSystem

CodecSpec == CodecInit /\ [][CodecNext]_vars


(***************************************************************************)
(* Guards, votes and the balances ledger                                   *)
(***************************************************************************)

\* the width in bits and the largest value of a ledger word (a balance, the
\* insurance pool and the amounts and durations added to them): u64 narrowed,
\* wide enough for the two reward constants
BALANCE_BITS == 4
BALANCE_MAX == 2^BALANCE_BITS - 1

\* let reward_amount = 10; let reward_rate = 5;
reward_amount == 10
reward_rate == 5

\* a + b and a * b without a check: on overflow a build with overflow checks
\* aborts (None) and a build without wraps around
unchecked_add(a, b, overflow_checks) ==
    IF a + b <= BALANCE_MAX THEN Some(a + b)
    ELSE IF overflow_checks THEN None
    ELSE Some((a + b) % (BALANCE_MAX + 1))

unchecked_mul(a, b, overflow_checks) ==
    IF a * b <= BALANCE_MAX THEN Some(a * b)
    ELSE IF overflow_checks THEN None
    ELSE Some((a * b) % (BALANCE_MAX + 1))

\* Clock::size_of() and the offset of unix_timestamp behind slot,
\* epoch_start_timestamp, epoch and leader_schedule_epoch
CLOCK_LEN == 5 * U64_BYTES
UNIX_TIMESTAMP_OFFSET == 4 * U64_BYTES

\* Clock::from_account_info and `clock.unix_timestamp as u64`: the account
\* must be the Clock sysvar and hold a whole Clock; the cast keeps the bits
from_account_info(d, clock_account) ==
    IF clock_account.key # CLOCK \/ Len(d[clock_account.key]) < CLOCK_LEN
    THEN LoadErr("InvalidArgument")
    ELSE Loaded(from_le_bytes(Slice(d[clock_account.key], UNIX_TIMESTAMP_OFFSET, CLOCK_LEN)))

\* the accounts flagged as signers among accounts[from..]
RECURSIVE count_signers(_, _)
count_signers(accounts, from) ==
    IF from > Len(accounts) THEN 0
    ELSE (IF accounts[from].is_signer THEN 1 ELSE 0) + count_signers(accounts, from + 1)

\* the count starts at the account behind the primary one
multisig_counting_second(d, accounts, required_signatures, authorized_accounts) ==
    IF Len(accounts) < 3 THEN Err(d, "NotEnoughAccountKeys") ELSE
    LET multisig_account == accounts[1] IN
    IF ~check_authorization(multisig_account, authorized_accounts) THEN Err(d, "Unauthorized") ELSE
    IF ~multisig_account.is_signer THEN Err(d, "MissingRequiredSignature") ELSE
    IF ~multisig_account.is_writable THEN Err(d, "InvalidDestinationAccount") ELSE
    LET signature_count == 1 + count_signers(accounts, 2) IN
    IF signature_count < required_signatures THEN Err(d, "Unauthorized") ELSE
    Done(d)

multisig(d, accounts, required_signatures, authorized_accounts) ==
    IF Len(accounts) < 3 THEN Err(d, "NotEnoughAccountKeys") ELSE
    LET multisig_account == accounts[1] IN
    IF ~check_authorization(multisig_account, authorized_accounts) THEN Err(d, "Unauthorized") ELSE
    IF ~multisig_account.is_signer THEN Err(d, "MissingRequiredSignature") ELSE
    IF ~multisig_account.is_writable THEN Err(d, "InvalidDestinationAccount") ELSE
    \* the iterator has passed multisig_account and _state_account
    LET signature_count == 1 + count_signers(accounts, 3) IN
    IF signature_count < required_signatures THEN Err(d, "Unauthorized") ELSE
    Done(d)

\* the comparison admits the unlock time itself as locked
time_lock_after(d, accounts, unlock_time, authorized_accounts) ==
    IF Len(accounts) < 3 THEN Err(d, "NotEnoughAccountKeys") ELSE
    IF ~check_authorization(accounts[1], authorized_accounts) THEN Err(d, "Unauthorized") ELSE
    IF ~accounts[1].is_signer THEN Err(d, "MissingRequiredSignature") ELSE
    LET clock == from_account_info(d, accounts[2]) IN
    IF clock.res # "Ok" THEN Err(d, clock.res) ELSE
    IF clock.val <= unlock_time THEN Err(d, "AccountLocked") ELSE
    Done(d)

time_lock(d, accounts, unlock_time, authorized_accounts) ==
    IF Len(accounts) < 3 THEN Err(d, "NotEnoughAccountKeys") ELSE
    LET time_lock_account == accounts[1]
        clock_account == accounts[2]
    IN
    IF ~check_authorization(time_lock_account, authorized_accounts) THEN Err(d, "Unauthorized") ELSE
    IF ~time_lock_account.is_signer THEN Err(d, "MissingRequiredSignature") ELSE
    LET clock == from_account_info(d, clock_account) IN
    IF clock.res # "Ok" THEN Err(d, clock.res) ELSE
    LET current_time == clock.val IN
    IF current_time < unlock_time THEN Err(d, "AccountLocked") ELSE
    Done(d)

emergency_stop(d, accounts, authorized_accounts, overflow_checks) ==
    IF Len(accounts) < 2 THEN Err(d, "NotEnoughAccountKeys") ELSE
    LET emergency_stop_account == accounts[1]
        system_state_account == accounts[2]
    IN
    IF ~check_authorization(emergency_stop_account, authorized_accounts) THEN Err(d, "Unauthorized") ELSE
    IF ~emergency_stop_account.is_signer THEN Err(d, "MissingRequiredSignature") ELSE
    LET state == load_system_state(d[system_state_account.key]) IN
    IF state.res # "Ok" THEN Err(d, state.res) ELSE
    LET stored == store_system_state(d[system_state_account.key],
                                     [state.val EXCEPT !.halt = TRUE], overflow_checks)
    IN
    IF stored.res # "Ok" THEN Err(d, stored.res) ELSE
    Done([d EXCEPT ![system_state_account.key] = stored.bytes])

\* state.votes.entry(proposal_id).or_default().push((voter, vote))
entry_or_default_push(votes, proposal_id, pair) ==
    Insert(votes, proposal_id,
           Append(IF proposal_id \in DOMAIN votes THEN votes[proposal_id] ELSE <<>>, pair))

\* the new pair goes to the front of the list
vote_push_front(d, accounts, proposal_id, choice, overflow_checks) ==
    IF Len(accounts) < 2 THEN Err(d, "NotEnoughAccountKeys") ELSE
    IF ~accounts[1].is_signer THEN Err(d, "MissingRequiredSignature") ELSE
    LET state == load_votes_state(d[accounts[2].key]) IN
    IF state.res # "Ok" THEN Err(d, state.res) ELSE
    LET list == IF proposal_id \in DOMAIN state.val THEN state.val[proposal_id] ELSE <<>>
        stored == store_votes_state(d[accounts[2].key],
                      Insert(state.val, proposal_id,
                             <<<<PubkeyBytes(accounts[1].key), choice>>>> \o list),
                      overflow_checks)
    IN
    IF stored.res # "Ok" THEN Err(d, stored.res) ELSE
    Done([d EXCEPT ![accounts[2].key] = stored.bytes])

vote(d, accounts, proposal_id, choice, overflow_checks) ==
    IF Len(accounts) < 2 THEN Err(d, "NotEnoughAccountKeys") ELSE
    LET voter_account == accounts[1]
        votes_state_account == accounts[2]
    IN
    IF ~voter_account.is_signer THEN Err(d, "MissingRequiredSignature") ELSE
    LET state == load_votes_state(d[votes_state_account.key]) IN
    IF state.res # "Ok" THEN Err(d, state.res) ELSE
    LET stored == store_votes_state(d[votes_state_account.key],
                      entry_or_default_push(state.val, proposal_id,
                                            <<PubkeyBytes(voter_account.key), choice>>),
                      overflow_checks)
    IN
    IF stored.res # "Ok" THEN Err(d, stored.res) ELSE
    Done([d EXCEPT ![votes_state_account.key] = stored.bytes])

charity_vote(d, accounts, proposal_id, choice, overflow_checks) ==
    IF Len(accounts) < 2 THEN Err(d, "NotEnoughAccountKeys") ELSE
    LET voter_account == accounts[1]
        votes_state_account == accounts[2]
    IN
    IF ~voter_account.is_signer THEN Err(d, "MissingRequiredSignature") ELSE
    LET state == load_votes_state(d[votes_state_account.key]) IN
    IF state.res # "Ok" THEN Err(d, state.res) ELSE
    LET stored == store_votes_state(d[votes_state_account.key],
                      entry_or_default_push(state.val, proposal_id,
                                            <<PubkeyBytes(voter_account.key), choice>>),
                      overflow_checks)
    IN
    IF stored.res # "Ok" THEN Err(d, stored.res) ELSE
    Done([d EXCEPT ![votes_state_account.key] = stored.bytes])

future_project_vote(d, accounts, proposal_id, choice, overflow_checks) ==
    IF Len(accounts) < 2 THEN Err(d, "NotEnoughAccountKeys") ELSE
    LET voter_account == accounts[1]
        votes_state_account == accounts[2]
    IN
    IF ~voter_account.is_signer THEN Err(d, "MissingRequiredSignature") ELSE
    LET state == load_votes_state(d[votes_state_account.key]) IN
    IF state.res # "Ok" THEN Err(d, state.res) ELSE
    LET stored == store_votes_state(d[votes_state_account.key],
                      entry_or_default_push(state.val, proposal_id,
                                            <<PubkeyBytes(voter_account.key), choice>>),
                      overflow_checks)
    IN
    IF stored.res # "Ok" THEN Err(d, stored.res) ELSE
    Done([d EXCEPT ![votes_state_account.key] = stored.bytes])

\* balances.entry(key).or_insert(0)
entry_or_insert_0(balances, key) == IF key \in DOMAIN balances THEN balances[key] ELSE 0

\* the reward half of incentivized_voting_system, on the store the vote half
\* left: an abort or a failed store leaves the vote written
credit_reward(voted, voter_account, balances_state_account, overflow_checks) ==
    LET balances_state == load_balances_state(voted[balances_state_account.key]) IN
    IF balances_state.res # "Ok" THEN Err(voted, balances_state.res) ELSE
    LET voter == PubkeyBytes(voter_account.key)
        balance == unchecked_add(entry_or_insert_0(balances_state.val, voter),
                                 reward_amount, overflow_checks)
    IN
    IF balance = None THEN Err(voted, "Panic") ELSE
    LET stored == store_balances_state(voted[balances_state_account.key],
                      Insert(balances_state.val, voter, balance[1]), overflow_checks)
    IN
    IF stored.res # "Ok" THEN Err(voted, stored.res) ELSE
    Done([voted EXCEPT ![balances_state_account.key] = stored.bytes])

incentivized_voting_system(d, accounts, proposal_id, choice, overflow_checks) ==
    IF Len(accounts) < 3 THEN Err(d, "NotEnoughAccountKeys") ELSE
    LET voter_account == accounts[1]
        votes_state_account == accounts[2]
        balances_state_account == accounts[3]
    IN
    IF ~voter_account.is_signer THEN Err(d, "MissingRequiredSignature") ELSE
    LET votes_state == load_votes_state(d[votes_state_account.key]) IN
    IF votes_state.res # "Ok" THEN Err(d, votes_state.res) ELSE
    LET stored == store_votes_state(d[votes_state_account.key],
                      entry_or_default_push(votes_state.val, proposal_id,
                                            <<PubkeyBytes(voter_account.key), choice>>),
                      overflow_checks)
    IN
    IF stored.res # "Ok" THEN Err(d, stored.res) ELSE
    credit_reward([d EXCEPT ![votes_state_account.key] = stored.bytes],
                  voter_account, balances_state_account, overflow_checks)

\* the reward is refused while the system state region holds halt = true
dynamic_staking_rewards_halted(d, accounts, staking_duration, overflow_checks) ==
    IF Len(accounts) < 2 THEN Err(d, "NotEnoughAccountKeys") ELSE
    IF ~accounts[1].is_signer THEN Err(d, "MissingRequiredSignature") ELSE
    IF load_system_state(d[S]).res = "Ok" /\ load_system_state(d[S]).val.halt
    THEN Err(d, "InvalidInstructionData") ELSE
    LET balances_state == load_balances_state(d[accounts[2].key]) IN
    IF balances_state.res # "Ok" THEN Err(d, balances_state.res) ELSE
    LET staker == PubkeyBytes(accounts[1].key)
        reward == unchecked_mul(staking_duration, reward_rate, overflow_checks)
    IN
    IF reward = None THEN Err(d, "Panic") ELSE
    LET balance == unchecked_add(entry_or_insert_0(balances_state.val, staker),
                                 reward[1], overflow_checks)
    IN
    IF balance = None THEN Err(d, "Panic") ELSE
    LET stored == store_balances_state(d[accounts[2].key],
                      Insert(balances_state.val, staker, balance[1]), overflow_checks)
    IN
    IF stored.res # "Ok" THEN Err(d, stored.res) ELSE
    Done([d EXCEPT ![accounts[2].key] = stored.bytes])

dynamic_staking_rewards(d, accounts, staking_duration, overflow_checks) ==
    IF Len(accounts) < 2 THEN Err(d, "NotEnoughAccountKeys") ELSE
    LET staker_account == accounts[1]
        balances_state_account == accounts[2]
    IN
    IF ~staker_account.is_signer THEN Err(d, "MissingRequiredSignature") ELSE
    LET balances_state == load_balances_state(d[balances_state_account.key]) IN
    IF balances_state.res # "Ok" THEN Err(d, balances_state.res) ELSE
    LET staker == PubkeyBytes(staker_account.key)
        reward == unchecked_mul(staking_duration, reward_rate, overflow_checks)
    IN
    IF reward = None THEN Err(d, "Panic") ELSE
    LET balance == unchecked_add(entry_or_insert_0(balances_state.val, staker),
                                 reward[1], overflow_checks)
    IN
    IF balance = None THEN Err(d, "Panic") ELSE
    LET stored == store_balances_state(d[balances_state_account.key],
                      Insert(balances_state.val, staker, balance[1]), overflow_checks)
    IN
    IF stored.res # "Ok" THEN Err(d, stored.res) ELSE
    Done([d EXCEPT ![balances_state_account.key] = stored.bytes])

\* the signer flag of the buyer is not looked at
token_buyback_program_unsigned(d, accounts, amount, overflow_checks) ==
    IF Len(accounts) < 2 THEN Err(d, "NotEnoughAccountKeys") ELSE
    LET balances_state == load_balances_state(d[accounts[2].key]) IN
    IF balances_state.res # "Ok" THEN Err(d, balances_state.res) ELSE
    LET buyer == PubkeyBytes(accounts[1].key)
        balance == entry_or_insert_0(balances_state.val, buyer)
    IN
    IF balance < amount THEN Err(d, "InsufficientFunds") ELSE
    LET stored == store_balances_state(d[accounts[2].key],
                      Insert(balances_state.val, buyer, balance - amount), overflow_checks)
    IN
    IF stored.res # "Ok" THEN Err(d, stored.res) ELSE
    Done([d EXCEPT ![accounts[2].key] = stored.bytes])

token_buyback_program(d, accounts, amount, overflow_checks) ==
    IF Len(accounts) < 2 THEN Err(d, "NotEnoughAccountKeys") ELSE
    LET buyback_account == accounts[1]
        balances_state_account == accounts[2]
    IN
    IF ~buyback_account.is_signer THEN Err(d, "MissingRequiredSignature") ELSE
    LET balances_state == load_balances_state(d[balances_state_account.key]) IN
    IF balances_state.res # "Ok" THEN Err(d, balances_state.res) ELSE
    LET buyer == PubkeyBytes(buyback_account.key)
        balance == entry_or_insert_0(balances_state.val, buyer)
    IN
    IF balance < amount THEN Err(d, "InsufficientFunds") ELSE
    LET stored == store_balances_state(d[balances_state_account.key],
                      Insert(balances_state.val, buyer, balance - amount), overflow_checks)
    IN
    IF stored.res # "Ok" THEN Err(d, stored.res) ELSE
    Done([d EXCEPT ![balances_state_account.key] = stored.bytes])

\* the pool half writes a fresh SystemState that holds the new pool only
add_to_pool_fresh_state(debited, system_state_account, amount, overflow_checks) ==
    LET system_state == load_system_state(debited[system_state_account.key]) IN
    IF system_state.res # "Ok" THEN Err(debited, system_state.res) ELSE
    LET pool == unchecked_add(system_state.val.insurance_pool, amount, overflow_checks) IN
    IF pool = None THEN Err(debited, "Panic") ELSE
    LET stored == store_system_state(debited[system_state_account.key],
                                     SystemState(FALSE, pool[1]), overflow_checks)
    IN
    IF stored.res # "Ok" THEN Err(debited, stored.res) ELSE
    Done([debited EXCEPT ![system_state_account.key] = stored.bytes])

\* the pool half of insurance_pool, on the store the debit half left: an abort
\* or a failed load or store leaves the balance debited
add_to_pool(debited, system_state_account, amount, overflow_checks) ==
    LET system_state == load_system_state(debited[system_state_account.key]) IN
    IF system_state.res # "Ok" THEN Err(debited, system_state.res) ELSE
    LET pool == unchecked_add(system_state.val.insurance_pool, amount, overflow_checks) IN
    IF pool = None THEN Err(debited, "Panic") ELSE
    LET stored == store_system_state(debited[system_state_account.key],
                      [system_state.val EXCEPT !.insurance_pool = pool[1]], overflow_checks)
    IN
    IF stored.res # "Ok" THEN Err(debited, stored.res) ELSE
    Done([debited EXCEPT ![system_state_account.key] = stored.bytes])

insurance_pool(d, accounts, amount, overflow_checks) ==
    IF Len(accounts) < 3 THEN Err(d, "NotEnoughAccountKeys") ELSE
    LET insurance_account == accounts[1]
        system_state_account == accounts[2]
        balances_state_account == accounts[3]
    IN
    IF ~insurance_account.is_signer THEN Err(d, "MissingRequiredSignature") ELSE
    LET balances_state == load_balances_state(d[balances_state_account.key]) IN
    IF balances_state.res # "Ok" THEN Err(d, balances_state.res) ELSE
    LET contributor == PubkeyBytes(insurance_account.key)
        balance == entry_or_insert_0(balances_state.val, contributor)
    IN
    IF balance < amount THEN Err(d, "InsufficientFunds") ELSE
    LET stored == store_balances_state(d[balances_state_account.key],
                      Insert(balances_state.val, contributor, balance - amount),
                      overflow_checks)
    IN
    IF stored.res # "Ok" THEN Err(d, stored.res) ELSE
    add_to_pool([d EXCEPT ![balances_state_account.key] = stored.bytes],
                system_state_account, amount, overflow_checks)

(***************************************************************************)
(* The whole program: two token accounts, the proposals, votes, balances   *)
(* and system state regions, and every operation that writes a region.     *)
(* The build (with or without overflow checks) is fixed at the start and   *)
(* kept in call.overflow_checks.                                           *)
(***************************************************************************)
ProgramKeys == {T1, T2, P, V, B, S}

\* the votes region has room for two votes under one proposal id (82 bytes)
\* and the trailer
VotesCapacity == 90

\* room for one SystemState and for one balance, each with the trailer behind it
SystemCapacity == 1 + U64_BYTES + TRAILER_LEN
BalancesCapacity == U32_BYTES + PUBKEY_BYTES + U64_BYTES + TRAILER_LEN

\* the amount bought back, the amount contributed to the pool (half the
\* range of a ledger word, so that a second contribution takes the pool past
\* the largest value) and the staking durations: one whose reward fits a
\* ledger word and one whose reward does not
BuybackAmount == reward_amount
InsuranceAmount == (BALANCE_MAX + 1) \div 2
StakingDurations == {reward_amount \div reward_rate, BALANCE_MAX \div reward_rate + 1}
\* the proposal the program's run submits and executes
ProgramProposalId == CHOOSE id \in ProposalIds : \A other \in ProposalIds : id <= other
ProgramPayload == MintPayload(U64_MAX)

ProgramNoCall(overflow_checks) ==
    [op |-> "init", accounts |-> <<>>, arg |-> 0, authorized_accounts |-> <<>>,
     proposal_data |-> <<>>, vote |-> FALSE, overflow_checks |-> overflow_checks,
     res |-> "Ok"]

\* the regions as the host hands them over: initialized token accounts
\* holding nothing, empty tables and SystemState { halt: false, insurance_pool: 0 }
ProgramInit ==
    /\ data = [k \in ProgramKeys |->
                 CASE k \in TokenKeys ->
                        pack_into_slice(TokenAccount(TRUE, PubkeyBytes(k), 0),
                                        Zeroed(TokenAccount_LEN))
                   [] k = P -> initialize_state_account(ProposalsCapacity)
                   [] k = V -> initialize_state_account(VotesCapacity)
                   [] k = B -> initialize_state_account(BalancesCapacity)
                   [] OTHER -> write_with_trailer(Zeroed(SystemCapacity),
                                                  serialize_system(SystemState(FALSE, 0)))]
    /\ before = data
    /\ call \in {ProgramNoCall(overflow_checks) : overflow_checks \in BOOLEAN}

ProgramInvoke(op, accounts, arg, authorized_accounts, proposal_data, choice, outcome) ==
    /\ call.op = "init"
    /\ data' = outcome.data
    /\ before' = data
    /\ call' = [op |-> op, accounts |-> accounts, arg |-> arg,
                authorized_accounts |-> authorized_accounts,
                proposal_data |-> proposal_data, vote |-> choice,
                overflow_checks |-> call.overflow_checks, res |-> outcome.res]

\* every account of the transaction is writable.  T1 votes for (vote,
\* future_project_vote, incentivized_voting_system) and T2 against
\* (charity_vote); every other call is T1's
Accounts(keys, signers) ==
    [i \in 1..Len(keys) |-> Account(keys[i], signers, ProgramKeys)]

MintCall ==
    \E signers \in SUBSET {T1} :
        LET accounts == Accounts(<<T1, T1, P>>, signers)
        IN  ProgramInvoke("mint", accounts, U64_MAX, <<T1>>, <<>>, FALSE,
                          mint(data, accounts, U64_MAX, <<T1>>))

TransferCall ==
    \E signers \in SUBSET {T1} :
        LET accounts == Accounts(<<T1, T2, P>>, signers)
        IN  ProgramInvoke("transfer", accounts, U64_MAX, <<T1>>, <<>>, FALSE,
                          transfer(data, accounts, U64_MAX, <<T1>>))

BurnCall ==
    \E signers \in SUBSET {T1} :
        LET accounts == Accounts(<<T1, P>>, signers)
        IN  ProgramInvoke("burn", accounts, U64_MAX, <<T1>>, <<>>, FALSE,
                          burn(data, accounts, U64_MAX, <<T1>>))

SubmitProposalCall ==
    \E signers \in SUBSET {T1} :
        LET accounts == Accounts(<<T1, P>>, signers)
        IN  ProgramInvoke("submit_proposal", accounts, ProgramProposalId, <<>>,
                          ProgramPayload, FALSE,
                          submit_proposal(data, accounts, ProgramProposalId, ProgramPayload))

ExecuteProposalCall ==
    \E signers \in SUBSET {T1} :
        LET accounts == Accounts(<<T1, P, T2, T1>>, signers)
        IN  ProgramInvoke("execute_proposal", accounts, ProgramProposalId, <<>>, <<>>, FALSE,
                          execute_proposal(data, accounts, ProgramProposalId))

EmergencyStopCall ==
    \E signers \in SUBSET {T1} :
        LET accounts == Accounts(<<T1, S>>, signers)
        IN  ProgramInvoke("emergency_stop", accounts, 0, <<T1>>, <<>>, FALSE,
                          emergency_stop(data, accounts, <<T1>>, call.overflow_checks))

\* vote is also handed the system state region in place of the votes region
VoteCall ==
    \E signers \in SUBSET {T1}, votes_state \in {V, S} :
        LET accounts == Accounts(<<T1, votes_state>>, signers)
        IN  ProgramInvoke("vote", accounts, ProgramProposalId, <<>>, <<>>, TRUE,
                          vote(data, accounts, ProgramProposalId, TRUE,
                               call.overflow_checks))

CharityVoteCall ==
    \E signers \in SUBSET {T2} :
        LET accounts == Accounts(<<T2, V>>, signers)
        IN  ProgramInvoke("charity_vote", accounts, ProgramProposalId, <<>>, <<>>, FALSE,
                          charity_vote(data, accounts, ProgramProposalId, FALSE,
                                       call.overflow_checks))

FutureProjectVoteCall ==
    \E signers \in SUBSET {T1} :
        LET accounts == Accounts(<<T1, V>>, signers)
        IN  ProgramInvoke("future_project_vote", accounts, ProgramProposalId, <<>>, <<>>,
                          TRUE,
                          future_project_vote(data, accounts, ProgramProposalId, TRUE,
                                              call.overflow_checks))

IncentivizedVotingSystemCall ==
    \E signers \in SUBSET {T1} :
        LET accounts == Accounts(<<T1, V, B>>, signers)
        IN  ProgramInvoke("incentivized_voting_system", accounts, ProgramProposalId, <<>>,
                          <<>>, TRUE,
                          incentivized_voting_system(data, accounts, ProgramProposalId, TRUE,
                                                     call.overflow_checks))

DynamicStakingRewardsCall ==
    \E signers \in SUBSET {T1}, staking_duration \in StakingDurations :
        LET accounts == Accounts(<<T1, B>>, signers)
        IN  ProgramInvoke("dynamic_staking_rewards", accounts, staking_duration, <<>>,
                          <<>>, FALSE,
                          dynamic_staking_rewards(data, accounts, staking_duration,
                                                  call.overflow_checks))

TokenBuybackProgramCall ==
    \E signers \in SUBSET {T1} :
        LET accounts == Accounts(<<T1, B>>, signers)
        IN  ProgramInvoke("token_buyback_program", accounts, BuybackAmount, <<>>, <<>>,
                          FALSE,
                          token_buyback_program(data, accounts, BuybackAmount,
                                                call.overflow_checks))

InsurancePoolCall ==
    \E signers \in SUBSET {T1} :
        LET accounts == Accounts(<<T1, S, B>>, signers)
        IN  ProgramInvoke("insurance_pool", accounts, InsuranceAmount, <<>>, <<>>, FALSE,
                          insurance_pool(data, accounts, InsuranceAmount,
                                         call.overflow_checks))

\* the host takes the result and the account list back; the buffers and the
\* build stay
ProgramReturn ==
    /\ call.op # "init"
    /\ data' = data
    /\ before' = data
    /\ call' = ProgramNoCall(call.overflow_checks)

ProgramNext ==
    \/ MintCall \/ TransferCall \/ BurnCall
    \/ SubmitProposalCall \/ ExecuteProposalCall
    \/ EmergencyStopCall
    \/ VoteCall \/ CharityVoteCall \/ FutureProjectVoteCall \/ IncentivizedVotingSystemCall
    \/ DynamicStakingRewardsCall \/ TokenBuybackProgramCall \/ InsurancePoolCall
    \/ ProgramReturn

ProgramSpec == ProgramInit /\ [][ProgramNext]_vars

(***************************************************************************)
(* The same operations on regions of another kind.  No operation checks    *)
(* what kind of region it is handed (no owner, discriminator or length     *)
(* check stands before load_*_state): a region is taken for a table when   *)
(* its last eight bytes hold a length that fits and the bytes before them  *)
(* decode.  In a token account those eight bytes are the amount.  Here the *)
(* accounts handed in the places of the proposals region and of the system *)
(* state region are token accounts, or the system state region is fresh,   *)
(* and only one of the votes and balances regions has been initialized.    *)
(***************************************************************************)
\* a zeroed token account after mint has credited it with amount: mint
\* leaves is_initialized and owner as they were
MintedIntoZeroed(amount) ==
    pack_into_slice(TokenAccount(FALSE, Zeroed(PUBKEY_BYTES), amount), Zeroed(TokenAccount_LEN))

\* the amounts that read as the length of an empty map and of a SystemState
EmptyMapLen == U32_BYTES
SystemStateLen == 1 + U64_BYTES

WrongRegionInit ==
    /\ \E ledger \in BOOLEAN,
          system_region \in {Zeroed(SystemCapacity), MintedIntoZeroed(SystemStateLen)} :
         data = [k \in ProgramKeys |->
                   CASE k \in TokenKeys ->
                          pack_into_slice(TokenAccount(TRUE, PubkeyBytes(k), 0),
                                          Zeroed(TokenAccount_LEN))
                     [] k = P -> MintedIntoZeroed(EmptyMapLen)
                     [] k = V -> IF ledger THEN Zeroed(VotesCapacity)
                                 ELSE initialize_state_account(VotesCapacity)
                     [] k = B -> IF ledger THEN initialize_state_account(BalancesCapacity)
                                 ELSE Zeroed(BalancesCapacity)
                     [] OTHER -> system_region]
    /\ before = data
    /\ call \in {ProgramNoCall(overflow_checks) : overflow_checks \in BOOLEAN}

WrongRegionSpec == WrongRegionInit /\ [][ProgramNext]_vars

(***************************************************************************)
(* The guards on their own: multisig and time_lock over account lists of   *)
(* two to four accounts with any signer flags, and a clock the host moves  *)
(* on between the calls.                                                   *)
(***************************************************************************)
GuardKeys == {T1, T2, S, CLOCK}

\* a Clock sysvar whose unix_timestamp is the given one, the other fields 0
ClockData(unix_timestamp) ==
    copy_from_slice(Zeroed(CLOCK_LEN), UNIX_TIMESTAMP_OFFSET,
                    to_le_bytes(unix_timestamp, U64_BYTES))

\* the clock as time_lock reads it
CurrentTime(d) == from_le_bytes(Slice(d[CLOCK], UNIX_TIMESTAMP_OFFSET, CLOCK_LEN))

\* the account lists handed to multisig: the primary account first, then a
\* co-signer and the state account in the order of the tests, in the order of
\* the iterator, and with a second co-signer
MultisigKeyLists == {<<T1, T2>>, <<T1, T2, S>>, <<T1, S, T2>>, <<T1, T2, CLOCK, S>>}
\* the account lists handed to time_lock: without the state account, with
\* the Clock sysvar, and with another account in its place
TimeLockKeyLists == {<<T1, CLOCK>>, <<T1, CLOCK, S>>, <<T1, S, S>>}

GuardInit ==
    /\ data = [k \in GuardKeys |->
                 CASE k \in TokenKeys -> Zeroed(TokenAccount_LEN)
                   [] k = CLOCK -> ClockData(0)
                   [] OTHER -> write_with_trailer(Zeroed(SystemCapacity),
                                                  serialize_system(SystemState(FALSE, 0)))]
    /\ before = data
    /\ call = NoCall

MultisigCall ==
    \E keys \in MultisigKeyLists, required_signatures \in 0..Cardinality(GuardKeys),
       authorized_accounts \in AuthLists :
      \E signers \in SUBSET {T1, T2, CLOCK}, writables \in {{}, GuardKeys} :
        LET accounts == [i \in 1..Len(keys) |-> Account(keys[i], signers, writables)]
        IN  Invoke("multisig", accounts, required_signatures, authorized_accounts, <<>>,
                   multisig(data, accounts, required_signatures, authorized_accounts))

TimeLockCall ==
    \E keys \in TimeLockKeyLists, unlock_time \in 0..U64_MAX,
       authorized_accounts \in AuthLists :
      \E signers \in SUBSET {T1} :
        LET accounts == [i \in 1..Len(keys) |-> Account(keys[i], signers, GuardKeys)]
        IN  Invoke("time_lock", accounts, unlock_time, authorized_accounts, <<>>,
                   time_lock(data, accounts, unlock_time, authorized_accounts))

\* between two calls the host moves the Clock sysvar on
AdvanceClock ==
    /\ call.op = "init"
    /\ CurrentTime(data) < U64_MAX
    /\ data' = [data EXCEPT ![CLOCK] = ClockData(CurrentTime(data) + 1)]
    /\ before' = data'
    /\ call' = call

GuardNext == MultisigCall \/ TimeLockCall \/ AdvanceClock \/ Return

GuardSpec == GuardInit /\ [][GuardNext]_vars

(***************************************************************************)
(* The entrypoint.  process_instruction refuses instruction data of fewer  *)
(* than 9 bytes, takes byte 0 as the instruction and bytes 1..9 as its     *)
(* u64 argument (byte 1 alone for multisig), and for the four vote         *)
(* instructions reads byte 9 as the choice without a length check: on      *)
(* instruction data of exactly 9 bytes that index is out of bounds.        *)
(***************************************************************************)
\* the two keys of the hard-coded authorization list
HardCodedAuthorizedAccounts == <<T1, T2>>

process_instruction(d, accounts, instruction_data, overflow_checks) ==
    IF Len(instruction_data) < 1 + U64_BYTES THEN Err(d, "InvalidInstructionData") ELSE
    LET instruction == instruction_data[1]
        word == from_le_bytes(Slice(instruction_data, 1, 1 + U64_BYTES))
        has_choice == Len(instruction_data) > 1 + U64_BYTES
        choice == instruction_data[2 + U64_BYTES] # 0
        authorized_accounts == HardCodedAuthorizedAccounts
    IN
    CASE instruction = 0 -> mint(d, accounts, word, authorized_accounts)
      [] instruction = 1 -> transfer(d, accounts, word, authorized_accounts)
      [] instruction = 2 -> burn(d, accounts, word, authorized_accounts)
      [] instruction = 3 ->
            submit_proposal(d, accounts, word,
                            Slice(instruction_data, 1 + U64_BYTES, Len(instruction_data)))
      [] instruction = 4 ->
            IF ~has_choice THEN Err(d, "Panic")
            ELSE vote(d, accounts, word, choice, overflow_checks)
      [] instruction = 5 -> execute_proposal(d, accounts, word)
      [] instruction = 6 -> multisig(d, accounts, instruction_data[2], authorized_accounts)
      [] instruction = 7 -> time_lock(d, accounts, word, authorized_accounts)
      [] instruction = 8 -> emergency_stop(d, accounts, authorized_accounts, overflow_checks)
      [] instruction = 9 ->
            IF ~has_choice THEN Err(d, "Panic")
            ELSE charity_vote(d, accounts, word, choice, overflow_checks)
      [] instruction = 10 ->
            IF ~has_choice THEN Err(d, "Panic")
            ELSE future_project_vote(d, accounts, word, choice, overflow_checks)
      [] instruction = 11 ->
            IF ~has_choice THEN Err(d, "Panic")
            ELSE incentivized_voting_system(d, accounts, word, choice, overflow_checks)
      [] instruction = 12 -> dynamic_staking_rewards(d, accounts, word, overflow_checks)
      [] instruction = 13 -> token_buyback_program(d, accounts, word, overflow_checks)
      [] instruction = 14 -> insurance_pool(d, accounts, word, overflow_checks)
      [] OTHER -> Err(d, "InvalidInstructionData")

\* the instruction bytes 0..14 of the program and one byte past them
Instructions == 0..15
\* the argument an instruction carries: the contribution for the ledger
\* operations, the smallest amount and proposal id for the others
InstructionArg(instruction) ==
    IF instruction \in {12, 13, 14} THEN InsuranceAmount ELSE ProgramProposalId

\* instruction data: empty, one byte short of the argument, and for every
\* instruction byte the instruction with its argument and with a choice byte
\* behind it
InstructionData ==
    {<<>>, Zeroed(U64_BYTES)}
    \cup {<<instruction>> \o to_le_bytes(InstructionArg(instruction), U64_BYTES) \o tail :
            instruction \in Instructions, tail \in {<<>>, <<1>>}}

\* the accounts each instruction is handed: the regions of its own kind
InstructionAccounts(instruction_data) ==
    IF instruction_data = <<>> THEN <<T1, P>> ELSE
    LET instruction == instruction_data[1] IN
    CASE instruction = 0 -> <<T1, T1, P>>
      [] instruction = 1 -> <<T1, T2, P>>
      [] instruction = 5 -> <<T1, P, T2, T1>>
      [] instruction = 6 -> <<T1, T2, S>>
      [] instruction = 7 -> <<T1, S, S>>
      [] instruction \in {8} -> <<T1, S>>
      [] instruction \in {4, 9, 10} -> <<T1, V>>
      [] instruction = 11 -> <<T1, V, B>>
      [] instruction \in {12, 13} -> <<T1, B>>
      [] instruction = 14 -> <<T1, S, B>>
      [] OTHER -> <<T1, P>>

ProcessInstruction ==
    \E instruction_data \in InstructionData, signers \in SUBSET {T1} :
        LET accounts == Accounts(InstructionAccounts(instruction_data), signers)
        IN  ProgramInvoke("process_instruction", accounts, 0, HardCodedAuthorizedAccounts,
                          instruction_data, FALSE,
                          process_instruction(data, accounts, instruction_data,
                                              call.overflow_checks))

InstructionNext == ProcessInstruction \/ ProgramReturn

InstructionSpec == ProgramInit /\ [][InstructionNext]_vars

(***************************************************************************)
(* What the properties observe.  A token region is read by its layout      *)
(* (flag byte, 32 owner bytes, amount as u64 little-endian), the proposals *)
(* table by a load of the proposals region.                                *)
(***************************************************************************)
TokenInitialized(bytes) == bytes[1] # 0
TokenAmount(bytes) == from_le_bytes(SubSeq(bytes, 1 + PUBKEY_BYTES + 1, TokenAccount_LEN))
Pending(d) == load_proposals_state(d[P])

\* the first account of the call signed and is on the authorized list
AuthorizedSigner ==
    /\ call.accounts[1].is_signer
    /\ Contains(call.authorized_accounts, call.accounts[1].key)

\* the payload that was pending under the executed id when the call started
ExecutedPayload == Pending(before).val[call.arg]

\* execute_proposal was called by a signer for an id that was pending
ExecutesPending ==
    /\ call.op = "execute_proposal"
    /\ call.accounts[1].is_signer
    /\ Pending(before).res = "Ok"
    /\ call.arg \in DOMAIN Pending(before).val

\* the executed id is gone from the table and every other entry is as it was
ExecutedIdRemoved ==
    /\ Pending(data).res = "Ok"
    /\ DOMAIN Pending(data).val = DOMAIN Pending(before).val \ {call.arg}
    /\ \A id \in DOMAIN Pending(data).val : Pending(data).val[id] = Pending(before).val[id]

(***************************************************************************)
(* C1.  A transfer of d by an authorized signer between an initialized     *)
(* source holding a and an initialized destination leaves source.amount =  *)
(* a - d and the destination amount increased by d when a >= d, and fails  *)
(* with InsufficientFunds, modifying neither account, when a < d.  Stated  *)
(* here in the sense most favourable to the code: the accounts are         *)
(* writable, the credit fits in a u64, and an account that is both source  *)
(* and destination is debited and credited, so keeps its amount.  Violated *)
(* by a transfer from an account to itself: it returns Ok and leaves the   *)
(* account with a + d.                                                     *)
(***************************************************************************)
C1_TransferDebitsSourceCreditsDestination ==
    ( /\ call.op = "transfer"
      /\ AuthorizedSigner
      /\ call.accounts[1].is_writable /\ call.accounts[2].is_writable
      /\ TokenInitialized(before[call.accounts[1].key])
      /\ TokenInitialized(before[call.accounts[2].key])
      /\ TokenAmount(before[call.accounts[2].key]) + call.arg <= U64_MAX )
    => LET source == call.accounts[1].key
           destination == call.accounts[2].key
       IN  IF TokenAmount(before[source]) >= call.arg
           THEN /\ call.res = "Ok"
                /\ \A k \in {source, destination} :
                     TokenAmount(data[k]) = TokenAmount(before[k])
                                            - (IF k = source THEN call.arg ELSE 0)
                                            + (IF k = destination THEN call.arg ELSE 0)
           ELSE /\ call.res = "InsufficientFunds"
                /\ data = before

(***************************************************************************)
(* C2.  A mint of d by an authorized signer on a writable destination      *)
(* holding amount a sets the amount to a + d when a + d fits in a u64, and *)
(* otherwise fails with OverflowError and leaves the amount as it was.     *)
(***************************************************************************)
C2_MintAddsOrReportsOverflow ==
    ( /\ call.op = "mint"
      /\ AuthorizedSigner
      /\ call.accounts[2].is_writable )
    => LET destination == call.accounts[2].key
           a == TokenAmount(before[destination])
       IN  IF a + call.arg <= U64_MAX
           THEN call.res = "Ok" /\ TokenAmount(data[destination]) = a + call.arg
           ELSE call.res = "OverflowError" /\ data = before

\* a mint has just added a positive amount to a positive balance
C2_Witness ==
    /\ call.op = "mint" /\ call.res = "Ok" /\ AuthorizedSigner
    /\ TokenAmount(before[call.accounts[2].key]) > 0
    /\ TokenAmount(data[call.accounts[2].key])
         = TokenAmount(before[call.accounts[2].key]) + call.arg

(***************************************************************************)
(* C3 as stated.  A burn of d by an authorized signer on an initialized    *)
(* account holding a sets the amount to a - d when a >= d, and fails with  *)
(* InsufficientFunds, amount unchanged, when a < d.                        *)
(***************************************************************************)
C3_AsStated ==
    ( /\ call.op = "burn"
      /\ AuthorizedSigner
      /\ TokenInitialized(before[call.accounts[1].key]) )
    => LET burner == call.accounts[1].key
           a == TokenAmount(before[burner])
       IN  IF a >= call.arg
           THEN call.res = "Ok" /\ TokenAmount(data[burner]) = a - call.arg
           ELSE call.res = "InsufficientFunds" /\ data = before

(***************************************************************************)
(* C3.  A burn of d by an authorized signer on a writable, initialized     *)
(* account holding a sets the amount to a - d when a >= d, and fails with  *)
(* InsufficientFunds, amount unchanged, when a < d; on an account that is  *)
(* not writable it fails with InvalidDestinationAccount, amount unchanged. *)
(***************************************************************************)
C3_BurnSubtractsOrReportsInsufficientFunds ==
    ( /\ call.op = "burn"
      /\ AuthorizedSigner
      /\ TokenInitialized(before[call.accounts[1].key]) )
    => LET burner == call.accounts[1].key
           a == TokenAmount(before[burner])
       IN  IF ~call.accounts[1].is_writable
           THEN call.res = "InvalidDestinationAccount" /\ data = before
           ELSE IF a >= call.arg
           THEN call.res = "Ok" /\ TokenAmount(data[burner]) = a - call.arg
           ELSE call.res = "InsufficientFunds" /\ data = before

\* a burn has just taken a positive amount off a balance
C3_Witness ==
    /\ call.op = "burn" /\ call.res = "Ok" /\ AuthorizedSigner
    /\ TokenInitialized(before[call.accounts[1].key])
    /\ TokenAmount(data[call.accounts[1].key]) + call.arg
         = TokenAmount(before[call.accounts[1].key])

\* the executed payload is a Mint: opcode 0 and 8 bytes of amount
ExecutesMint ==
    /\ ExecutesPending
    /\ Len(ExecutedPayload) = 1 + U64_BYTES
    /\ ExecutedPayload[1] = 0

\* the executed payload is a Transfer: opcode 1, 8 bytes of amount, two keys
ExecutesTransfer ==
    /\ ExecutesPending
    /\ Len(ExecutedPayload) = 1 + U64_BYTES + 2 * PUBKEY_BYTES
    /\ ExecutedPayload[1] = 1

PayloadAmount == from_le_bytes(SubSeq(ExecutedPayload, 2, 1 + U64_BYTES))
PayloadSource == SubSeq(ExecutedPayload, 2 + U64_BYTES, 1 + U64_BYTES + PUBKEY_BYTES)
PayloadDestination ==
    SubSeq(ExecutedPayload, 2 + U64_BYTES + PUBKEY_BYTES, 1 + U64_BYTES + 2 * PUBKEY_BYTES)
Listed(key_bytes) == \E i \in 1..Len(call.accounts) : PubkeyBytes(call.accounts[i].key) = key_bytes
KeyOf(key_bytes) == CHOOSE k \in Keys : PubkeyBytes(k) = key_bytes

(***************************************************************************)
(* C4.  When execute_proposal is called by a signer for a pending id whose *)
(* payload is a Mint of d, and the token account passed is initialized     *)
(* with amount a and a + d fits in a u64, then afterwards the token        *)
(* account's amount is a + d, the id is no longer in the proposals table   *)
(* and every other pending proposal is unchanged.                          *)
(***************************************************************************)
C4_ExecutedMintAddsAndRemoves ==
    ( /\ ExecutesMint
      /\ TokenInitialized(before[call.accounts[3].key])
      /\ TokenAmount(before[call.accounts[3].key]) + PayloadAmount <= U64_MAX )
    => /\ call.res = "Ok"
       /\ TokenAmount(data[call.accounts[3].key])
            = TokenAmount(before[call.accounts[3].key]) + PayloadAmount
       /\ ExecutedIdRemoved

\* a Mint proposal has just been executed while another proposal was pending
C4_Witness ==
    /\ ExecutesMint /\ call.res = "Ok"
    /\ TokenInitialized(before[call.accounts[3].key])
    /\ TokenAmount(data[call.accounts[3].key]) > TokenAmount(before[call.accounts[3].key])
    /\ Pending(data).res = "Ok"
    /\ DOMAIN Pending(data).val # {}
    /\ call.arg \notin DOMAIN Pending(data).val

(***************************************************************************)
(* C5.  When execute_proposal is called by a signer for a pending id whose *)
(* payload is a Transfer of d from a source identity to a destination      *)
(* identity, both among the supplied accounts and initialized, the source  *)
(* holding a >= d, then afterwards the source amount is a - d, the         *)
(* destination amount is increased by d and the id is removed from the     *)
(* table.  Stated here in the sense most favourable to the code: the       *)
(* credit fits in a u64, and an account that is both source and            *)
(* destination is debited and credited, so keeps its amount.  Violated by  *)
(* a Transfer whose source and destination are one account: it is left     *)
(* with a + d.                                                             *)
(***************************************************************************)
C5_ExecutedTransferMovesAndRemoves ==
    ( /\ ExecutesTransfer
      /\ Listed(PayloadSource) /\ Listed(PayloadDestination)
      /\ TokenInitialized(before[KeyOf(PayloadSource)])
      /\ TokenInitialized(before[KeyOf(PayloadDestination)])
      /\ TokenAmount(before[KeyOf(PayloadSource)]) >= PayloadAmount
      /\ TokenAmount(before[KeyOf(PayloadDestination)]) + PayloadAmount <= U64_MAX )
    => LET source == KeyOf(PayloadSource)
           destination == KeyOf(PayloadDestination)
       IN  /\ call.res = "Ok"
           /\ \A k \in {source, destination} :
                TokenAmount(data[k]) = TokenAmount(before[k])
                                       - (IF k = source THEN PayloadAmount ELSE 0)
                                       + (IF k = destination THEN PayloadAmount ELSE 0)
           /\ ExecutedIdRemoved

(***************************************************************************)
(* C6.  Whenever execute_proposal returns an error (absent id, unknown     *)
(* opcode, missing account, uninitialized account, InsufficientFunds,      *)
(* OverflowError), the proposal is not removed, the persisted table is     *)
(* unchanged and no token account is modified: every region holds the      *)
(* bytes it held before the call.                                          *)
(***************************************************************************)
C6_FailedExecutionChangesNothing ==
    (call.op = "execute_proposal" /\ call.res \notin {"Ok", "Panic"}) => data = before

\* execute_proposal has just refused a pending proposal for overflow
C6_Witness ==
    /\ ExecutesPending
    /\ call.res = "OverflowError"
    /\ data = before

(***************************************************************************)
(* C7.  For every token-account state (initialized or not) and every       *)
(* amount, executing a Mint proposal against the account gives the same    *)
(* outcome (success or the same kind of failure) and the same resulting    *)
(* account contents as a direct mint of that amount by an authorized       *)
(* signer on that writable account.  Violated on an account that was never *)
(* initialized: the direct mint credits it, the proposal fails with        *)
(* UninitializedAccount.                                                   *)
(***************************************************************************)
C7_ProposalMintMatchesDirectMint ==
    ExecutesMint
    => LET token_account == call.accounts[3]
           direct == mint(before,
                          <<AccountInfo(T1, TRUE, TRUE),
                            AccountInfo(token_account.key, FALSE, TRUE),
                            AccountInfo(P, FALSE, FALSE)>>,
                          PayloadAmount, <<T1>>)
       IN  /\ call.res = direct.res
           /\ data[token_account.key] = direct.data[token_account.key]

(***************************************************************************)
(* What the codec properties observe: the length field in the last 8 bytes *)
(* of the region, and the encoded length of the record a store was given.  *)
(***************************************************************************)
Trailer(region) == from_le_bytes(SubSeq(region, Len(region) - TRAILER_LEN + 1, Len(region)))

EncodedLen(kind, record) ==
    Len(CASE kind = "proposals" -> serialize_proposals(record)
          [] kind = "votes" -> serialize_votes(record)
          [] kind = "balances" -> serialize_balances(record)
          [] kind = "system" -> serialize_system(record))

(***************************************************************************)
(* C8.  For every record type, every record R and every prior content of   *)
(* the region (a longer record stored earlier included), a load that       *)
(* follows a successful store of R into the same region returns a value    *)
(* equal to R.                                                             *)
(***************************************************************************)
C8_LoadReturnsWhatWasStored ==
    ( /\ call.op = "load"
      /\ call.last_stored # <<>>
      /\ call.last_stored[1] = call.kind )
    => /\ call.res = "Ok"
       /\ call.record = call.last_stored[2]

\* a load has just returned the stored record from a region that still holds
\* bytes of a longer record between the record's end and the trailer
C8_Witness ==
    /\ call.op = "load" /\ call.res = "Ok"
    /\ call.last_stored # <<>>
    /\ call.last_stored[1] = call.kind
    /\ call.record = call.last_stored[2]
    /\ \E i \in (EncodedLen(call.kind, call.record) + 1)..(Len(data[R]) - TRAILER_LEN) :
          data[R][i] # 0

(***************************************************************************)
(* C9.  A load fails with InvalidAccountData whenever the region's 8-byte  *)
(* trailer is zero or exceeds capacity minus 8 (a freshly zeroed region    *)
(* included); it never modifies the region, so a repeated load gives the   *)
(* same error again, and a failed load yields no record at all.            *)
(***************************************************************************)
C9_LoadRejectsBadTrailerAndReadsOnly ==
    [][ /\ call'.op = "load" =>
            /\ data' = data
            /\ ( /\ Len(data[R]) >= TRAILER_LEN
                 /\ \/ Trailer(data[R]) = 0
                    \/ Trailer(data[R]) > Len(data[R]) - TRAILER_LEN )
               => call'.res = "InvalidAccountData"
            /\ call'.res # "Ok" => call'.record = None
        /\ (call.op = "load" /\ call'.op = "load" /\ call'.kind = call.kind) =>
            /\ call'.res = call.res
            /\ call'.record = call.record ]_vars

\* a load has just refused a region whose trailer is not zero and points
\* past the room before the trailer
C9_Witness ==
    /\ call.op = "load" /\ call.res = "InvalidAccountData"
    /\ Len(data[R]) >= TRAILER_LEN
    /\ Trailer(data[R]) > Len(data[R]) - TRAILER_LEN

(***************************************************************************)
(* C10.  For every record type, a store into a region whose capacity is    *)
(* smaller than the encoded length plus 8 fails with AccountDataTooSmall   *)
(* and leaves the region's bytes unchanged.  Stated here for regions that  *)
(* have room for the trailer.  Violated by store_votes_state,              *)
(* store_balances_state and store_system_state, which fail with            *)
(* InvalidAccountData.                                                     *)
(***************************************************************************)
C10_TooSmallRegionIsRefused ==
    ( /\ call.op = "store"
      /\ Len(before[R]) >= TRAILER_LEN
      /\ Len(before[R]) < EncodedLen(call.kind, call.record) + TRAILER_LEN )
    => /\ call.res = "AccountDataTooSmall"
       /\ data = before

\* submit_proposal was called by a signer on a proposals region that loads
SubmitsBySigner ==
    /\ call.op = "submit_proposal"
    /\ call.accounts[1].is_signer
    /\ Pending(before).res = "Ok"

\* the table is the table before the call with the submitted entry added
SubmittedEntryAdded ==
    /\ Pending(data).res = "Ok"
    /\ Pending(data).val = Insert(Pending(before).val, call.arg, call.proposal_data)

(***************************************************************************)
(* C11 as stated.  submit_proposal by a signer inserts id -> payload only  *)
(* when id is not pending, leaving every other entry unchanged, so that a  *)
(* following load returns exactly the submitted payload; when id is        *)
(* already pending it fails with InvalidArgument and the whole persisted   *)
(* table stays unchanged.                                                  *)
(***************************************************************************)
C11_AsStated ==
    SubmitsBySigner
    => IF call.arg \in DOMAIN Pending(before).val
       THEN call.res = "InvalidArgument" /\ data = before
       ELSE call.res = "Ok" => SubmittedEntryAdded

(***************************************************************************)
(* C11.  submit_proposal by a signer, on a table that loads: a payload     *)
(* over 1024 bytes is refused with InvalidInstructionData whether or not   *)
(* the id is pending; otherwise a pending id is refused with               *)
(* InvalidArgument; otherwise the entry id -> payload is added and every   *)
(* other entry is unchanged, so that a following load returns the payload, *)
(* unless the region is too small for the new table, which is refused with *)
(* AccountDataTooSmall.  Every refusal leaves all regions unchanged.       *)
(***************************************************************************)
C11_SubmitInsertsOrRefusesDuplicate ==
    SubmitsBySigner
    => IF Len(call.proposal_data) > MAX_PROPOSAL_DATA
       THEN call.res = "InvalidInstructionData" /\ data = before
       ELSE IF call.arg \in DOMAIN Pending(before).val
       THEN call.res = "InvalidArgument" /\ data = before
       ELSE \/ call.res = "Ok" /\ SubmittedEntryAdded
                /\ Pending(data).val[call.arg] = call.proposal_data
            \/ call.res = "AccountDataTooSmall" /\ data = before

\* a submission has just been added next to an entry that was already pending
C11_Witness ==
    /\ SubmitsBySigner /\ call.res = "Ok"
    /\ DOMAIN Pending(before).val # {}
    /\ DOMAIN Pending(data).val = DOMAIN Pending(before).val \cup {call.arg}
    /\ Pending(data).val[call.arg] = call.proposal_data

\* every pending payload has at most 1024 bytes
PendingPayloadsBounded ==
    LET now == Pending(data) IN
    now.res = "Ok" => \A id \in DOMAIN now.val : Len(now.val[id]) <= MAX_PROPOSAL_DATA

(***************************************************************************)
(* C12 as stated.  submit_proposal with a payload longer than 1024 bytes   *)
(* fails with InvalidInstructionData and leaves the proposals region       *)
(* unchanged, so every pending payload has at most 1024 bytes.             *)
(***************************************************************************)
C12_AsStated ==
    /\ (call.op = "submit_proposal" /\ Len(call.proposal_data) > MAX_PROPOSAL_DATA)
       => call.res = "InvalidInstructionData" /\ data = before
    /\ PendingPayloadsBounded

(***************************************************************************)
(* C12.  submit_proposal with a payload longer than 1024 bytes fails with  *)
(* InvalidInstructionData when the proposer signed and with                *)
(* MissingRequiredSignature when not; either way every region is           *)
(* unchanged, so in every reachable state every pending payload has at     *)
(* most 1024 bytes.                                                        *)
(***************************************************************************)
C12_LongPayloadIsRefused ==
    /\ (call.op = "submit_proposal" /\ Len(call.proposal_data) > MAX_PROPOSAL_DATA)
       => /\ call.res = (IF call.accounts[1].is_signer THEN "InvalidInstructionData"
                         ELSE "MissingRequiredSignature")
          /\ data = before
    /\ PendingPayloadsBounded

\* a signed submission of 1025 bytes has just been refused on a table that loads
C12_Witness ==
    /\ SubmitsBySigner
    /\ Len(call.proposal_data) = MAX_PROPOSAL_DATA + 1
    /\ call.res = "InvalidInstructionData"
    /\ data = before

\* the call is one of the three ledger operations
LedgerCall == call.op \in {"mint", "transfer", "burn"}
CallerListed == Contains(call.authorized_accounts, call.accounts[1].key)

(***************************************************************************)
(* C13 as stated.  mint, transfer and burn called by an identity that is   *)
(* not marked as a signer, or that is not in the authorization list, fail  *)
(* with Unauthorized and modify no token account.                          *)
(***************************************************************************)
C13_AsStated ==
    (LedgerCall /\ (~call.accounts[1].is_signer \/ ~CallerListed))
    => call.res = "Unauthorized" /\ data = before

(***************************************************************************)
(* C13.  mint, transfer and burn called by an identity that is not in the  *)
(* authorization list fail with Unauthorized, signer or not; called by a   *)
(* listed identity that is not marked as a signer they fail with           *)
(* MissingRequiredSignature.  In both cases no region is modified.         *)
(***************************************************************************)
C13_UnlistedOrUnsignedIsRefused ==
    (LedgerCall /\ (~call.accounts[1].is_signer \/ ~CallerListed))
    => /\ call.res = (IF CallerListed THEN "MissingRequiredSignature" ELSE "Unauthorized")
       /\ data = before

\* a listed caller that did not sign has just been refused on funded accounts
C13_Witness ==
    /\ LedgerCall /\ CallerListed /\ ~call.accounts[1].is_signer
    /\ call.res = "MissingRequiredSignature"
    /\ TokenAmount(before[T1]) > 0
    /\ data = before

(***************************************************************************)
(* C14 as stated.  check_authorization with an empty list imposes no       *)
(* restriction: it succeeds for every identity, and fails with             *)
(* Unauthorized only when the list is non-empty and does not contain the   *)
(* identity.  Observed on mint, transfer and burn, whose only source of    *)
(* Unauthorized is check_authorization.                                    *)
(***************************************************************************)
C14_AsStated ==
    LedgerCall
    => (call.res = "Unauthorized"
          <=> (call.authorized_accounts # <<>> /\ ~CallerListed))

(***************************************************************************)
(* C14.  check_authorization succeeds exactly when the list contains the   *)
(* identity: with an empty list it fails with Unauthorized for every       *)
(* identity.  Observed on mint, transfer and burn, whose only source of    *)
(* Unauthorized is check_authorization.                                    *)
(***************************************************************************)
C14_UnauthorizedIffNotListed ==
    LedgerCall => (call.res = "Unauthorized" <=> ~CallerListed)

\* a signer has just been refused under an empty authorization list
C14_Witness ==
    /\ LedgerCall
    /\ call.authorized_accounts = <<>>
    /\ call.accounts[1].is_signer
    /\ call.res = "Unauthorized"

\* the operations that look at the signer flag of their first account
SignedOperations ==
    {"mint", "transfer", "burn", "emergency_stop", "submit_proposal", "vote",
     "charity_vote", "future_project_vote", "incentivized_voting_system",
     "execute_proposal", "dynamic_staking_rewards", "token_buyback_program",
     "insurance_pool"}

\* the same call with the first account flagged as a signer would have
\* returned Ok and changed a region
SignedCallWouldWrite ==
    LET signed == [call.accounts EXCEPT ![1].is_signer = TRUE]
        outcome ==
            CASE call.op = "mint" -> mint(before, signed, call.arg, call.authorized_accounts)
              [] call.op = "transfer" ->
                    transfer(before, signed, call.arg, call.authorized_accounts)
              [] call.op = "burn" -> burn(before, signed, call.arg, call.authorized_accounts)
              [] call.op = "emergency_stop" ->
                    emergency_stop(before, signed, call.authorized_accounts,
                                   call.overflow_checks)
              [] call.op = "submit_proposal" ->
                    submit_proposal(before, signed, call.arg, call.proposal_data)
              [] call.op = "execute_proposal" -> execute_proposal(before, signed, call.arg)
              [] call.op = "vote" ->
                    vote(before, signed, call.arg, call.vote, call.overflow_checks)
              [] call.op = "charity_vote" ->
                    charity_vote(before, signed, call.arg, call.vote, call.overflow_checks)
              [] call.op = "future_project_vote" ->
                    future_project_vote(before, signed, call.arg, call.vote,
                                        call.overflow_checks)
              [] call.op = "incentivized_voting_system" ->
                    incentivized_voting_system(before, signed, call.arg, call.vote,
                                               call.overflow_checks)
              [] call.op = "dynamic_staking_rewards" ->
                    dynamic_staking_rewards(before, signed, call.arg, call.overflow_checks)
              [] call.op = "token_buyback_program" ->
                    token_buyback_program(before, signed, call.arg, call.overflow_checks)
              [] call.op = "insurance_pool" ->
                    insurance_pool(before, signed, call.arg, call.overflow_checks)
              [] OTHER -> Err(before, "none")
    IN  outcome.res = "Ok" /\ outcome.data # before

(***************************************************************************)
(* C15.  No operation changes any region when its first account is not     *)
(* marked as a signer: mint, transfer, burn, emergency_stop,               *)
(* submit_proposal, vote, charity_vote, future_project_vote,               *)
(* incentivized_voting_system, execute_proposal, dynamic_staking_rewards,  *)
(* token_buyback_program and insurance_pool return an error and leave      *)
(* every token account, table and the system state region unchanged.       *)
(***************************************************************************)
C15_NonSignerCallChangesNothing ==
    (call.op \in SignedOperations /\ ~call.accounts[1].is_signer)
    => call.res # "Ok" /\ data = before

\* a call that would have debited the caller's balance has just been refused
\* because the caller did not sign
C15_Witness ==
    /\ call.op \in {"token_buyback_program", "insurance_pool"}
    /\ ~call.accounts[1].is_signer
    /\ SignedCallWouldWrite
    /\ call.res = "MissingRequiredSignature"
    /\ data = before

\* the accounts of the call that are flagged as signers, each counted once
SuppliedSigners == {call.accounts[i].key : i \in {j \in DOMAIN call.accounts :
                                                    call.accounts[j].is_signer}}

(***************************************************************************)
(* C16.  multisig counts every supplied account that is flagged as a       *)
(* signer, the primary account once, and fails with Unauthorized exactly   *)
(* when that count is below required; so required = 2 with a signing       *)
(* primary fails with Unauthorized when the other account did not sign and *)
(* succeeds when it did.  Stated for calls that pass the checks before the *)
(* count: at least three accounts, and a primary account that is           *)
(* authorized, a signer and writable.                                      *)
(***************************************************************************)
C16_MultisigCountsEverySigner ==
    (/\ call.op = "multisig"
     /\ Len(call.accounts) >= 3
     /\ CallerListed
     /\ call.accounts[1].is_signer
     /\ call.accounts[1].is_writable)
    => /\ call.res = "Unauthorized" <=> Cardinality(SuppliedSigners) < call.arg
       /\ call.res = "Ok" <=> Cardinality(SuppliedSigners) >= call.arg

\* time_lock was called by an authorized signer with the Clock sysvar and the
\* state account behind it
TimeLockByAuthorizedSigner ==
    /\ call.op = "time_lock"
    /\ Len(call.accounts) >= 3
    /\ CallerListed
    /\ call.accounts[1].is_signer
    /\ call.accounts[2].key = CLOCK

(***************************************************************************)
(* C17.  time_lock called by an authorized signer fails with AccountLocked *)
(* exactly when current_time < unlock_time and succeeds when               *)
(* current_time >= unlock_time, equality included; no time_lock call       *)
(* modifies a region, so the outcome is a function of unlock_time and of   *)
(* the clock value supplied with that call.                                *)
(***************************************************************************)
C17_TimeLockComparesAndWritesNothing ==
    /\ call.op = "time_lock" => data = before
    /\ TimeLockByAuthorizedSigner
       => call.res = (IF CurrentTime(before) < call.arg THEN "AccountLocked" ELSE "Ok")

\* a call made at the unlock time itself, after the clock had moved on from
\* its first value, has just succeeded
C17_Witness ==
    /\ TimeLockByAuthorizedSigner
    /\ call.arg > 0
    /\ CurrentTime(before) = call.arg
    /\ call.res = "Ok"
    /\ data = before

\* the SystemState in the system state region
System(d) == load_system_state(d[S])

(***************************************************************************)
(* C18.  halt is monotonic: a successful emergency_stop sets halt to true  *)
(* without changing insurance_pool, and no operation, insurance_pool and a *)
(* repeated emergency_stop included, takes the system state region from a  *)
(* state with halt true to one where halt is not true.                     *)
(***************************************************************************)
C18_HaltIsMonotonic ==
    /\ System(data).res = "Ok"
    /\ (call.op = "emergency_stop" /\ call.res = "Ok")
       => /\ System(data).val.halt
          /\ System(data).val.insurance_pool = System(before).val.insurance_pool
    /\ System(before).val.halt => System(data).val.halt

\* a contribution has just been added to the pool of a halted system
C18_Witness ==
    /\ call.op = "insurance_pool" /\ call.res = "Ok"
    /\ System(before).val.halt
    /\ System(data).val.halt
    /\ System(data).val.insurance_pool # System(before).val.insurance_pool

(***************************************************************************)
(* C19.  insurance_pool only increases: no operation leaves the stored     *)
(* pool smaller than it was before the call, also when a contribution      *)
(* would take it past the largest value of the word.                       *)
(***************************************************************************)
C19_InsurancePoolOnlyIncreases ==
    System(data).val.insurance_pool >= System(before).val.insurance_pool

\* the VotesState in the votes region, and its list for a proposal id
Votes(d) == load_votes_state(d[V])
VotesFor(d, id) == IF id \in DOMAIN Votes(d).val THEN Votes(d).val[id] ELSE <<>>

VoteOperations == {"vote", "charity_vote", "future_project_vote", "incentivized_voting_system"}

(***************************************************************************)
(* C20.  The vote table is append-only: each successful vote by a signer   *)
(* leaves the list of its id as it was with exactly the pair               *)
(* (voter, choice) added at the end, and every other list as it was,       *)
(* whether or not the id is pending and whether or not the voter voted     *)
(* before; and no operation, execute_proposal included, removes a list or  *)
(* removes, reorders or changes a pair that was in it.                     *)
(***************************************************************************)
C20_VoteTableIsAppendOnly ==
    LET now == Votes(data)
        was == Votes(before)
        now_for(id) == IF id \in DOMAIN now.val THEN now.val[id] ELSE <<>>
        was_for(id) == IF id \in DOMAIN was.val THEN was.val[id] ELSE <<>>
    IN
    /\ now.res = "Ok"
    /\ (call.op \in VoteOperations /\ call.res = "Ok")
       => /\ call.accounts[1].is_signer
          /\ DOMAIN now.val = DOMAIN was.val \cup {call.arg}
          /\ \A id \in DOMAIN now.val :
                now_for(id) =
                    IF id = call.arg
                    THEN Append(was_for(id), <<PubkeyBytes(call.accounts[1].key), call.vote>>)
                    ELSE was_for(id)
    /\ \A id \in DOMAIN was.val :
          /\ id \in DOMAIN now.val
          /\ Len(now_for(id)) >= Len(was_for(id))
          /\ SubSeq(now_for(id), 1, Len(was_for(id))) = was_for(id)
    /\ call.op \notin VoteOperations => now.val = was.val

\* a voter who had voted on an id that is not pending has just voted on it
\* again
C20_Witness ==
    /\ call.op \in VoteOperations /\ call.res = "Ok"
    /\ call.arg \notin DOMAIN Pending(before).val
    /\ Len(VotesFor(before, call.arg)) = 1
    /\ VotesFor(before, call.arg)[1][1] = PubkeyBytes(call.accounts[1].key)
    /\ VotesFor(data, call.arg)[2] = <<PubkeyBytes(call.accounts[1].key), call.vote>>

\* what the call's operation returns and leaves when it is run on the store d
\* with the call's own arguments
Replay(d) ==
    CASE call.op = "mint" -> mint(d, call.accounts, call.arg, call.authorized_accounts)
      [] call.op = "transfer" -> transfer(d, call.accounts, call.arg, call.authorized_accounts)
      [] call.op = "burn" -> burn(d, call.accounts, call.arg, call.authorized_accounts)
      [] call.op = "emergency_stop" ->
            emergency_stop(d, call.accounts, call.authorized_accounts, call.overflow_checks)
      [] call.op = "submit_proposal" ->
            submit_proposal(d, call.accounts, call.arg, call.proposal_data)
      [] call.op = "execute_proposal" -> execute_proposal(d, call.accounts, call.arg)
      [] call.op = "vote" ->
            vote(d, call.accounts, call.arg, call.vote, call.overflow_checks)
      [] call.op = "charity_vote" ->
            charity_vote(d, call.accounts, call.arg, call.vote, call.overflow_checks)
      [] call.op = "future_project_vote" ->
            future_project_vote(d, call.accounts, call.arg, call.vote, call.overflow_checks)
      [] call.op = "incentivized_voting_system" ->
            incentivized_voting_system(d, call.accounts, call.arg, call.vote,
                                       call.overflow_checks)
      [] call.op = "dynamic_staking_rewards" ->
            dynamic_staking_rewards(d, call.accounts, call.arg, call.overflow_checks)
      [] call.op = "token_buyback_program" ->
            token_buyback_program(d, call.accounts, call.arg, call.overflow_checks)
      [] call.op = "insurance_pool" ->
            insurance_pool(d, call.accounts, call.arg, call.overflow_checks)
      [] OTHER -> Done(d)

\* the three plain vote operations
PlainVotes == {"vote", "charity_vote", "future_project_vote"}

(***************************************************************************)
(* C21.  charity_vote and future_project_vote have the state contract of   *)
(* vote: whichever of the three was called, each of the three, run on the  *)
(* store before the call with the call's accounts, id and choice, returns  *)
(* the call's result and leaves the call's store, the votes table          *)
(* included.                                                               *)
(***************************************************************************)
C21_VoteVariantsAgree ==
    call.op \in PlainVotes
    => LET outcome == [res |-> call.res, data |-> data] IN
       /\ vote(before, call.accounts, call.arg, call.vote, call.overflow_checks) = outcome
       /\ charity_vote(before, call.accounts, call.arg, call.vote, call.overflow_checks)
              = outcome
       /\ future_project_vote(before, call.accounts, call.arg, call.vote,
                              call.overflow_checks) = outcome

\* a charity_vote has just been added behind an earlier vote on the same id
C21_Witness ==
    /\ call.op = "charity_vote" /\ call.res = "Ok"
    /\ Len(VotesFor(before, call.arg)) = 1
    /\ Len(VotesFor(data, call.arg)) = 2
    /\ vote(before, call.accounts, call.arg, call.vote, call.overflow_checks).data = data

\* the token accounts a transfer or a burn works on
WorkedAccounts ==
    IF call.op = "transfer" THEN {call.accounts[1].key, call.accounts[2].key}
    ELSE {call.accounts[1].key}

\* every account a transfer or a burn works on is flagged writable
WorkedAccountsWritable ==
    IF call.op = "transfer"
    THEN call.accounts[1].is_writable /\ call.accounts[2].is_writable
    ELSE call.accounts[1].is_writable

(***************************************************************************)
(* C22 as stated.  A transfer by an authorized signer whose source or      *)
(* destination is not initialized, and a burn by an authorized signer on   *)
(* an account that is not initialized, fail with UninitializedAccount and  *)
(* modify no account.                                                      *)
(***************************************************************************)
C22_AsStated ==
    ( /\ call.op \in {"transfer", "burn"}
      /\ AuthorizedSigner
      /\ \E k \in WorkedAccounts : ~TokenInitialized(before[k]) )
    => call.res = "UninitializedAccount" /\ data = before

(***************************************************************************)
(* C22.  A transfer by an authorized signer between writable accounts      *)
(* whose source or destination is not initialized, and a burn by an        *)
(* authorized signer on a writable account that is not initialized, fail   *)
(* with UninitializedAccount and modify no account; when an account of the *)
(* call is not writable the call fails with InvalidDestinationAccount      *)
(* instead, and modifies no account either.                                *)
(***************************************************************************)
C22_UninitializedAccountIsRefused ==
    ( /\ call.op \in {"transfer", "burn"}
      /\ AuthorizedSigner
      /\ \E k \in WorkedAccounts : ~TokenInitialized(before[k]) )
    => /\ data = before
       /\ call.res = IF WorkedAccountsWritable THEN "UninitializedAccount"
                     ELSE "InvalidDestinationAccount"

\* a transfer out of an initialized account that holds the amount has just
\* been refused because its destination is not initialized
C22_Witness ==
    /\ call.op = "transfer" /\ call.res = "UninitializedAccount" /\ AuthorizedSigner
    /\ TokenInitialized(before[call.accounts[1].key])
    /\ TokenAmount(before[call.accounts[1].key]) >= call.arg
    /\ ~TokenInitialized(before[call.accounts[2].key])
    /\ data = before

(***************************************************************************)
(* C23.  After a successful mint into a token account whose initialized    *)
(* flag is false, the account's initialized flag is true.                  *)
(***************************************************************************)
C23_MintInitializes ==
    ( /\ call.op = "mint" /\ call.res = "Ok"
      /\ AuthorizedSigner
      /\ ~TokenInitialized(before[call.accounts[2].key]) )
    => TokenInitialized(data[call.accounts[2].key])

\* the balance the ledger region B holds for the owner of key (0 when absent)
BalanceOf(d, key) == entry_or_insert_0(load_balances_state(d[B]).val, PubkeyBytes(key))

\* the value a reward operation adds to, and what it adds
RewardBase ==
    IF call.op = "insurance_pool" THEN System(before).val.insurance_pool
    ELSE BalanceOf(before, call.accounts[1].key)
RewardAdded ==
    CASE call.op = "dynamic_staking_rewards" -> reward_rate * call.arg
      [] call.op = "incentivized_voting_system" -> reward_amount
      [] OTHER -> call.arg
RewardStored ==
    IF call.op = "insurance_pool" THEN System(data).val.insurance_pool
    ELSE BalanceOf(data, call.accounts[1].key)

(***************************************************************************)
(* C26.  Reward arithmetic never wraps: a staking_reward of duration n     *)
(* that succeeds leaves the staker's balance at balance_before + 5 * n, an *)
(* incentivized vote that succeeds leaves the voter's balance at           *)
(* balance_before + 10, and an insurance contribution of d that succeeds   *)
(* leaves the pool at pool_before + d, as integers: when the product or    *)
(* the sum does not fit the word the call does not succeed.                *)
(***************************************************************************)
C26_RewardArithmeticNeverWraps ==
    ( /\ call.op \in {"dynamic_staking_rewards", "incentivized_voting_system",
                      "insurance_pool"}
      /\ call.res = "Ok" )
    => RewardStored = RewardBase + RewardAdded

(***************************************************************************)
(* C27.  An insurance contribution of d by a signer whose balance is at    *)
(* least d, when it succeeds, lowers the contributor's balance by d,       *)
(* raises insurance_pool by d and leaves halt as it was; when the balance  *)
(* is below d the call fails with InsufficientFunds and changes neither    *)
(* region.                                                                 *)
(***************************************************************************)
C27_ContributionMovesExactly ==
    ( /\ call.op = "insurance_pool"
      /\ call.accounts[1].is_signer )
    => LET contributor == call.accounts[1].key IN
       IF BalanceOf(before, contributor) < call.arg
       THEN call.res = "InsufficientFunds" /\ data = before
       ELSE call.res = "Ok"
            => /\ BalanceOf(data, contributor) = BalanceOf(before, contributor) - call.arg
               /\ System(data).val.insurance_pool
                      = System(before).val.insurance_pool + call.arg
               /\ System(data).val.halt = System(before).val.halt

\* one for the primary account, and one for every account from the third
\* position on that is flagged as a signer
CountFromThird ==
    1 + Cardinality({i \in DOMAIN call.accounts : i >= 3 /\ call.accounts[i].is_signer})

\* multisig was called with at least three accounts by an authorized signer
MultisigByAuthorizedSigner ==
    /\ call.op = "multisig"
    /\ Len(call.accounts) >= 3
    /\ AuthorizedSigner

(***************************************************************************)
(* C29 as stated.  multisig called by an authorized signer with at least   *)
(* three accounts never counts the account in second position: it fails    *)
(* with Unauthorized exactly when one plus the number of signer-flagged    *)
(* accounts from the third position on is below required, and succeeds     *)
(* otherwise.                                                              *)
(***************************************************************************)
C29_AsStated ==
    MultisigByAuthorizedSigner
    => /\ call.res = "Unauthorized" <=> CountFromThird < call.arg
       /\ call.res = "Ok" <=> CountFromThird >= call.arg

(***************************************************************************)
(* C29.  multisig called by an authorized signer with at least three       *)
(* accounts and a writable primary account never counts the account in     *)
(* second position: it fails with Unauthorized exactly when one plus the   *)
(* number of signer-flagged accounts from the third position on is below   *)
(* required, and succeeds otherwise; with a primary account that is not    *)
(* writable it fails with InvalidDestinationAccount whatever the count.    *)
(* No account is modified.                                                 *)
(***************************************************************************)
C29_SecondAccountIsNeverCounted ==
    MultisigByAuthorizedSigner
    => /\ data = before
       /\ IF ~call.accounts[1].is_writable
          THEN call.res = "InvalidDestinationAccount"
          ELSE /\ call.res = "Unauthorized" <=> CountFromThird < call.arg
               /\ call.res = "Ok" <=> CountFromThird >= call.arg

\* [primary (signer), signer1 (signer), state] with required = 2 has just
\* been refused
C29_Witness ==
    /\ MultisigByAuthorizedSigner
    /\ call.accounts[1].is_writable
    /\ Len(call.accounts) = 3
    /\ call.accounts[2].is_signer /\ ~call.accounts[3].is_signer
    /\ call.arg = 2
    /\ call.res = "Unauthorized"

\* the store d with the halt flag of the system state region inverted and
\* every other byte as it is
OtherHalt(d) ==
    [d EXCEPT ![S] = store_system_state(d[S], [System(d).val EXCEPT !.halt = ~@],
                                        call.overflow_checks).bytes]

\* the operations the halt flag could be expected to stop
HaltableOperations ==
    {"mint", "transfer", "burn", "submit_proposal", "vote", "charity_vote",
     "future_project_vote", "execute_proposal", "incentivized_voting_system",
     "dynamic_staking_rewards", "token_buyback_program", "insurance_pool"}

(***************************************************************************)
(* C30.  The halt flag gates nothing: whatever mint, transfer, burn,       *)
(* submit_proposal, a vote variant, execute_proposal or a reward operation *)
(* returned and wrote, the same call on the same store with the halt flag  *)
(* inverted returns the same result and writes the same bytes, the halt    *)
(* flag staying inverted.                                                  *)
(***************************************************************************)
C30_HaltGatesNothing ==
    call.op \in HaltableOperations
    => LET other == Replay(OtherHalt(before)) IN
       /\ other.res = call.res
       /\ other.data = OtherHalt(data)

\* a staking reward has just been credited while halt was true
C30_Witness ==
    /\ call.op = "dynamic_staking_rewards" /\ call.res = "Ok"
    /\ System(before).val.halt
    /\ BalanceOf(data, call.accounts[1].key) # BalanceOf(before, call.accounts[1].key)
    /\ Replay(OtherHalt(before)).res = "Ok"

\* the regions that hold a token account: those of a token account's length
TokenRegions(d) == {k \in DOMAIN d : Len(d[k]) = TokenAccount_LEN}

\* the operations that are not mint, transfer, burn or execute_proposal
NonTokenOperations ==
    {"submit_proposal", "vote", "charity_vote", "future_project_vote",
     "incentivized_voting_system", "multisig", "time_lock", "emergency_stop",
     "dynamic_staking_rewards", "token_buyback_program", "insurance_pool"}

(***************************************************************************)
(* C24.  A token account is changed only by mint, transfer, burn and       *)
(* execute_proposal: submit_proposal, the vote variants, multisig,         *)
(* time_lock, emergency_stop, dynamic_staking_rewards,                     *)
(* token_buyback_program and insurance_pool leave every byte of every      *)
(* token account as it was.                                                *)
(***************************************************************************)
C24_OnlyTokenOperationsChangeTokenAccounts ==
    call.op \in NonTokenOperations
    => \A k \in TokenRegions(before) : data[k] = before[k]

(***************************************************************************)
(* C25.  When incentivized_voting_system or insurance_pool returns an      *)
(* error, neither of the two regions it writes has changed.                *)
(***************************************************************************)
C25_BothWritesOrNeither ==
    ( /\ call.op \in {"incentivized_voting_system", "insurance_pool"}
      /\ call.res \notin {"Ok", "Panic"} )
    => data = before

\* the supplied accounts that are flagged writable and have the identity key
WritableSupplied(key) ==
    {i \in DOMAIN call.accounts : call.accounts[i].key = key /\ call.accounts[i].is_writable}

(***************************************************************************)
(* C28.  For a pending Transfer proposal executed by a signer,             *)
(* execute_proposal fails when no writable account is supplied for the     *)
(* payload's source or for its destination, and it never modifies a token  *)
(* account that is not flagged writable.  (The claim names the error,      *)
(* InvalidAccountData; any error satisfies this formula.)                  *)
(***************************************************************************)
C28_ExecuteUsesOnlyWritableAccounts ==
    ExecutesTransfer
    => /\ (WritableSupplied(KeyOf(PayloadSource)) = {}
             \/ WritableSupplied(KeyOf(PayloadDestination)) = {})
            => call.res # "Ok"
       /\ \A k \in TokenKeys : WritableSupplied(k) = {} => data[k] = before[k]

\* a direct transfer that has passed every check before the arithmetic: an
\* authorized signer, writable and initialized accounts, a source that holds
\* the amount
TransferReachesArithmetic ==
    /\ call.op = "transfer"
    /\ AuthorizedSigner
    /\ WorkedAccountsWritable
    /\ \A k \in WorkedAccounts : TokenInitialized(before[k])
    /\ TokenAmount(before[call.accounts[1].key]) >= call.arg

\* an executed Transfer payload that has passed every check before the
\* arithmetic: both accounts supplied and initialized, a source that holds
\* the amount
ExecutedTransferReachesArithmetic ==
    /\ ExecutesTransfer
    /\ Listed(PayloadSource) /\ Listed(PayloadDestination)
    /\ TokenInitialized(before[KeyOf(PayloadSource)])
    /\ TokenInitialized(before[KeyOf(PayloadDestination)])
    /\ TokenAmount(before[KeyOf(PayloadSource)]) >= PayloadAmount

(***************************************************************************)
(* C31.  A transfer whose debit of the source is computed and whose        *)
(* destination amount plus the transferred amount does not fit the word    *)
(* fails with OverflowError and leaves every account and the proposals     *)
(* region unchanged, whether it is called directly or through a Transfer   *)
(* proposal.                                                               *)
(***************************************************************************)
C31_CreditOverflowChangesNothing ==
    /\ ( /\ TransferReachesArithmetic
         /\ TokenAmount(before[call.accounts[2].key]) + call.arg > U64_MAX )
       => call.res = "OverflowError" /\ data = before
    /\ ( /\ ExecutedTransferReachesArithmetic
         /\ TokenAmount(before[KeyOf(PayloadDestination)]) + PayloadAmount > U64_MAX )
       => call.res = "OverflowError" /\ data = before

\* a direct transfer between two accounts has just been refused because the
\* destination cannot take the amount, the source holding it
C31_Witness ==
    /\ TransferReachesArithmetic
    /\ call.accounts[1].key # call.accounts[2].key
    /\ TokenAmount(before[call.accounts[2].key]) + call.arg > U64_MAX
    /\ call.res = "OverflowError"
    /\ data = before

\* the sum of the amounts of all token accounts
Supply(d) == TokenAmount(d[T1]) + TokenAmount(d[T2])

(***************************************************************************)
(* C33.  Transfers conserve supply: after a successful transfer, direct or *)
(* through a Transfer proposal, the sum of the amounts of all token        *)
(* accounts is what it was before, also when the source and the            *)
(* destination are the same account.                                       *)
(***************************************************************************)
C33_TransfersConserveSupply ==
    ( /\ call.op = "transfer" \/ ExecutesTransfer
      /\ call.res = "Ok" )
    => Supply(data) = Supply(before)

(***************************************************************************)
(* C34.  execute_proposal returns a result, Ok or an error value, for      *)
(* every pending payload: it never aborts.                                 *)
(***************************************************************************)
C34_ExecuteNeverAborts ==
    call.op = "execute_proposal" => call.res # "Panic"

\* the instruction data of the call, and its instruction byte when it has one
InstructionByte == call.proposal_data[1]
VoteInstructions == {4, 9, 10, 11}

\* a top-level call is malformed when its instruction data is shorter than 9
\* bytes, when its instruction byte is past the last instruction, or when it
\* is a vote instruction without a tenth byte
Malformed ==
    /\ call.op = "process_instruction"
    /\ \/ Len(call.proposal_data) < 1 + U64_BYTES
       \/ InstructionByte > 14
       \/ InstructionByte \in VoteInstructions /\ Len(call.proposal_data) < 2 + U64_BYTES

(***************************************************************************)
(* C32.  process_instruction reports InvalidInstructionData and changes no *)
(* region for every malformed top-level call: instruction data shorter     *)
(* than 9 bytes, an instruction byte outside 0..14, and a vote,            *)
(* charity_vote, future_project_vote or incentivized_voting_system         *)
(* instruction without a tenth byte.                                       *)
(***************************************************************************)
C32_MalformedCallIsRefused ==
    Malformed => call.res = "InvalidInstructionData" /\ data = before

\* a votes region with no vote recorded, and one that records a vote of T1
\* for the proposal id
NoVoteRecorded == initialize_state_account(VotesCapacity)
VoteRecorded(id) ==
    store_votes_state(NoVoteRecorded, Insert(EmptyMap, id, <<<<PubkeyBytes(T1), TRUE>>>>),
                      FALSE).bytes
VoteRegions == {NoVoteRecorded, VoteRecorded(call.arg)}

\* the store d next to a votes region
WithVotes(d, region) == [k \in DOMAIN d \cup {V} |-> IF k = V THEN region ELSE d[k]]

\* the proposal call of the step, run on the store d
ReplayProposalCall(d) ==
    IF call.op = "submit_proposal"
    THEN submit_proposal(d, call.accounts, call.arg, call.proposal_data)
    ELSE execute_proposal(d, call.accounts, call.arg)

(***************************************************************************)
(* C35.  Submitting and executing a proposal depend neither on votes nor   *)
(* on the authorization list: neither operation is handed a list, and      *)
(* whatever the call returned and wrote, the same call next to a votes     *)
(* region that holds no vote and next to one that holds a vote for the     *)
(* proposal returns the same result and writes the same ProposalTable and  *)
(* token accounts, the votes region staying as it was.                     *)
(***************************************************************************)
C35_ProposalsIgnoreVotes ==
    call.op \in {"submit_proposal", "execute_proposal"}
    => /\ call.authorized_accounts = <<>>
       /\ \A region \in VoteRegions :
             LET run == ReplayProposalCall(WithVotes(before, region)) IN
             /\ run.res = call.res
             /\ run.data = WithVotes(data, region)

\* a signer has just executed a pending Transfer proposal, and the execution
\* succeeds with no vote recorded as it does with one
C35_Witness ==
    /\ ExecutesTransfer /\ call.res = "Ok"
    /\ data # before
    /\ ReplayProposalCall(WithVotes(before, NoVoteRecorded)).res = "Ok"
    /\ VoteRecorded(call.arg) # NoVoteRecorded
    /\ ReplayProposalCall(WithVotes(before, VoteRecorded(call.arg))).res = "Ok"

\* the loaded table holds no proposal under id
Without(table, id) == table.res = "Ok" /\ id \notin DOMAIN table.val
NotPending(d, id) == Without(Pending(d), id)

\* a successful execution leaves its id out of the table, and an id that is
\* out of the table stays out until a submit_proposal of that id succeeds (a
\* region that has not changed holds the table it held)
ExecutedIdStaysOut ==
    /\ call.op = "execute_proposal" /\ call.res = "Ok" => NotPending(data, call.arg)
    /\ data[P] # before[P]
       => LET was == Pending(before)
              now == Pending(data)
          IN  \A id \in ProposalIds \cup {AbsentId} :
                /\ Without(was, id)
                /\ ~(call.op = "submit_proposal" /\ call.arg = id /\ call.res = "Ok")
                => Without(now, id)

\* execute_proposal was called for an id that the loadable table does not hold
ExecutesAgain ==
    /\ call.op = "execute_proposal"
    /\ Len(call.accounts) >= 4
    /\ NotPending(before, call.arg)

\* C36 as the specification states it: once executed, an id is out of the
\* table until it is submitted again, and every execute_proposal of it in
\* between fails with InvalidInstructionData and changes nothing
C36_AsStated ==
    /\ ExecutedIdStaysOut
    /\ ExecutesAgain => call.res = "InvalidInstructionData" /\ data = before

(***************************************************************************)
(* C36.  A proposal is executed at most once per submission: a successful  *)
(* execute_proposal leaves its id out of the table, the id stays out until *)
(* a submit_proposal of that id succeeds, and every execute_proposal of an *)
(* id that is out of the table fails and changes no region, with           *)
(* InvalidInstructionData when the executor signed and with                *)
(* MissingRequiredSignature when it did not.                               *)
(***************************************************************************)
C36_ExecutedOncePerSubmission ==
    /\ ExecutedIdStaysOut
    /\ ExecutesAgain
       => /\ data = before
          /\ call.res = IF call.accounts[1].is_signer THEN "InvalidInstructionData"
                        ELSE "MissingRequiredSignature"

\* a signer has just executed a pending proposal with effect, and the same
\* execute_proposal once more is refused and changes nothing
C36_Witness ==
    /\ ExecutesPending /\ call.res = "Ok"
    /\ \E k \in TokenKeys : data[k] # before[k]
    /\ NotPending(data, call.arg)
    /\ LET again == execute_proposal(data, call.accounts, call.arg) IN
       again.res = "InvalidInstructionData" /\ again.data = data

\* the loaded table holds under id a payload whose first byte is neither the
\* Mint nor the Transfer action
Stuck(table, id) ==
    /\ table.res = "Ok"
    /\ id \in DOMAIN table.val
    /\ Len(table.val[id]) >= 1
    /\ table.val[id][1] \notin {0, 1}

\* no step takes such a proposal out of the table or changes its payload (a
\* region that has not changed holds the table it held)
StuckStays ==
    data[P] # before[P]
    => LET was == Pending(before)
           now == Pending(data)
       IN  \A id \in ProposalIds :
             Stuck(was, id) => Stuck(now, id) /\ now.val[id] = was.val[id]

\* the call is an execute_proposal, or a submit_proposal, of such a proposal
ExecutesStuck ==
    /\ call.op = "execute_proposal"
    /\ Len(call.accounts) >= 4
    /\ Stuck(Pending(before), call.arg)
SubmitsOverStuck ==
    /\ call.op = "submit_proposal"
    /\ Stuck(Pending(before), call.arg)

\* C37 as the specification states it: such a proposal never leaves the
\* table, every execute_proposal of it fails with InvalidInstructionData and
\* every submit_proposal of its id is rejected as a duplicate
C37_AsStated ==
    /\ StuckStays
    /\ ExecutesStuck => call.res = "InvalidInstructionData" /\ data = before
    /\ SubmitsOverStuck => call.res = "InvalidArgument" /\ data = before

(***************************************************************************)
(* C37.  A pending proposal whose first payload byte is neither 0 nor 1    *)
(* never leaves the ProposalTable and keeps its payload.  Every            *)
(* execute_proposal of it fails and changes nothing, with                  *)
(* InvalidInstructionData when the executor signed and with                *)
(* MissingRequiredSignature when it did not.  Every submit_proposal of its *)
(* id fails and changes nothing: with MissingRequiredSignature when the    *)
(* proposer did not sign, with InvalidInstructionData when the new payload *)
(* is longer than 1024 bytes, and as a duplicate, InvalidArgument,         *)
(* otherwise.                                                              *)
(***************************************************************************)
C37_UnknownActionStaysPending ==
    /\ StuckStays
    /\ ExecutesStuck
       => /\ data = before
          /\ call.res = IF call.accounts[1].is_signer THEN "InvalidInstructionData"
                        ELSE "MissingRequiredSignature"
    /\ SubmitsOverStuck
       => /\ data = before
          /\ call.res = IF ~call.accounts[1].is_signer THEN "MissingRequiredSignature"
                        ELSE IF Len(call.proposal_data) > MAX_PROPOSAL_DATA
                             THEN "InvalidInstructionData"
                        ELSE "InvalidArgument"

\* a signer has just been refused the execution of such a proposal, which is
\* still pending, and a signed submit_proposal of its id would be refused as a
\* duplicate
C37_Witness ==
    /\ ExecutesStuck
    /\ call.accounts[1].is_signer
    /\ call.res = "InvalidInstructionData"
    /\ Stuck(Pending(data), call.arg)
    /\ submit_proposal(data, <<call.accounts[1], call.accounts[2]>>, call.arg,
                       MintPayload(1)).res = "InvalidArgument"

\* the operations that load a table or the system state
TableOperations ==
    {"submit_proposal", "execute_proposal", "vote", "charity_vote", "future_project_vote",
     "incentivized_voting_system", "dynamic_staking_rewards", "token_buyback_program",
     "insurance_pool", "emergency_stop"}

\* the region the operation loads first: the balances for insurance_pool, the
\* second account for the others
FirstLoaded == IF call.op = "insurance_pool" THEN call.accounts[3].key
               ELSE call.accounts[2].key

\* the call passes the checks that come before the first load
ReachesFirstLoad ==
    /\ call.op \in TableOperations
    /\ call.accounts[1].is_signer
    /\ call.op = "emergency_stop" => AuthorizedSigner
    /\ call.op = "submit_proposal" => Len(call.proposal_data) <= MAX_PROPOSAL_DATA

\* a region that the host created all zero and that no table operation has
\* stored into: every byte is zero, but for the amount a mint has written
\* when the region has the length of a token account
NeverStored(bytes) ==
    \A i \in 1..Len(bytes) :
        bytes[i] = 0 \/ (Len(bytes) = TokenAccount_LEN /\ i > TokenAccount_LEN - U64_BYTES)

(***************************************************************************)
(* C38.  No operation initializes a table or the system state: on a region *)
(* that was created all zero and that no table operation has stored into,  *)
(* every operation that loads it first (submit_proposal, execute_proposal, *)
(* a vote variant, a reward operation, emergency_stop), called by a signer *)
(* that passes the checks before the load, fails with InvalidAccountData   *)
(* and leaves the region as it was.                                        *)
(***************************************************************************)
C38_ZeroedRegionStaysUninitialized ==
    ReachesFirstLoad /\ NeverStored(before[FirstLoaded])
    => call.res = "InvalidAccountData" /\ data[FirstLoaded] = before[FirstLoaded]

\* the initialized flag and the owner of a token account: its first 33 bytes
FlagAndOwner(bytes) == SubSeq(bytes, 1, 1 + PUBKEY_BYTES)

(***************************************************************************)
(* C39.  No operation changes the owner or the initialized flag of a token *)
(* account: in every step every region of a token account's length keeps   *)
(* its first 33 bytes, and a transfer, a burn or an execute_proposal that  *)
(* succeeds has changed only token accounts that were initialized.         *)
(***************************************************************************)
C39_FlagAndOwnerNeverChange ==
    /\ \A k \in TokenRegions(before) : FlagAndOwner(data[k]) = FlagAndOwner(before[k])
    /\ call.op \in {"transfer", "burn", "execute_proposal"} /\ call.res = "Ok"
       => \A k \in TokenRegions(before) :
            data[k] # before[k] => TokenInitialized(before[k])

====
